---- MODULE Spec2Model ----
(***************************************************************************)
(* Model of the pricing-impact simulation engine of                        *)
(* src/agents/impact_simulator.py (class ImpactSimulationAgent).           *)
(*                                                                         *)
(* Numbers.  Python ints and floats are modelled as exact rationals        *)
(* <<n, d>> in lowest terms with d > 0.  round(x, k) is modelled as        *)
(* round-half-to-even on the exact value.                                  *)
(*                                                                         *)
(* Dicts are modelled as TLA+ functions with a domain of strings, so a     *)
(* missing key is a string outside DOMAIN; d[k] on a missing key raises    *)
(* KeyError and d.get(k, default) falls back to the default.  None is the  *)
(* record NoneVal.                                                         *)
(*                                                                         *)
(* A call of a method ends in [outcome |-> "returned", value |-> v] or in  *)
(* [outcome |-> "raised", exc |-> e] when an exception leaves the method.  *)
(***************************************************************************)
EXTENDS Integers, Sequences, FiniteSets, TLC

VARIABLES
    simulation_history,   \* self.simulation_history (impact_simulator.py:38)
    clock,                \* the instant datetime.now() returns
    call,                 \* the call in hand: method, arguments, outcome
    threads,              \* per-thread position and locals of concurrent calls
    np_random             \* the process-wide generator behind np.random

vars == <<simulation_history, clock, call, threads, np_random>>

\* The generator is a seed and the number of runs' worth of draws taken
\* from it since it was seeded; a process starts with some seed.
FreshGenerator == [seed |-> 0, position |-> 0]

----------------------------------------------------------------------------
(* Exact rational arithmetic *)

AbsInt(n) == IF n < 0 THEN -n ELSE n

RECURSIVE Gcd(_, _)
Gcd(a, b) == IF b = 0 THEN a ELSE Gcd(b, a % b)

Rat(n, d) ==
    LET g == Gcd(AbsInt(n), AbsInt(d))
        s == IF d < 0 THEN -1 ELSE 1
    IN  <<(s * n) \div g, (s * d) \div g>>

RInt(n) == <<n, 1>>
RZero == RInt(0)
ROne == RInt(1)
RHundred == RInt(100)

RAdd(x, y) ==
    LET g == Gcd(x[2], y[2])
    IN  Rat(x[1] * (y[2] \div g) + y[1] * (x[2] \div g), (x[2] \div g) * y[2])

RNeg(x) == <<-x[1], x[2]>>
RSub(x, y) == RAdd(x, RNeg(y))

RMul(x, y) ==
    LET a == Rat(x[1], y[2])
        b == Rat(y[1], x[2])
    IN  Rat(a[1] * b[1], a[2] * b[2])

\* defined for y # 0 only; callers test for the zero divisor first
RDiv(x, y) == RMul(x, Rat(y[2], y[1]))

RAbs(x) == <<AbsInt(x[1]), x[2]>>
RLt(x, y) == x[1] * y[2] < y[1] * x[2]
RGt(x, y) == RLt(y, x)
RLe(x, y) == ~RLt(y, x)
RGe(x, y) == ~RLt(x, y)
RIsZero(x) == x[1] = 0

RECURSIVE Pow10(_)
Pow10(k) == IF k = 0 THEN 1 ELSE 10 * Pow10(k - 1)

\* Python round(x, ndigits): nearest multiple of 10^-ndigits, ties to even
Round(x, ndigits) ==
    LET p == Pow10(ndigits)
        num == (x[1] % x[2]) * p
        q == (x[1] \div x[2]) * p + (num \div x[2])
        r == num % x[2]
        up == \/ 2 * r > x[2]
              \/ 2 * r = x[2] /\ q % 2 = 1
    IN  Rat(IF up THEN q + 1 ELSE q, p)

RECURSIVE RSum(_)
RSum(s) == IF s = <<>> THEN RZero ELSE RAdd(Head(s), RSum(Tail(s)))

----------------------------------------------------------------------------
(* Python values *)

NoneVal == [none |-> TRUE]
IsNone(x) == "none" \in DOMAIN x

Get(d, k, default) == IF k \in DOMAIN d THEN d[k] ELSE default

Returned(v) == [outcome |-> "returned", value |-> v]
Raised(e) == [outcome |-> "raised", exc |-> e]

\* str.lower() on the response levels the requests of this model use
Lower(s) ==
    CASE s = "HIGH" -> "high"
      [] s = "Moderate" -> "moderate"
      [] OTHER -> s

----------------------------------------------------------------------------
(* Loops that an exception can leave *)

AnyRaised(passes) == \E i \in 1..Len(passes) : passes[i].outcome = "raised"
FirstRaised(passes) ==
    LET failed == {i \in 1..Len(passes) : passes[i].outcome = "raised"}
    IN  passes[CHOOSE i \in failed : \A j \in failed : i <= j]
Values(passes) == [i \in 1..Len(passes) |-> passes[i].value]

----------------------------------------------------------------------------
(* Demand impact simulator: impact_simulator.py:61-155 *)

\* the market conditions simulate_demand_impact supplies when given None
DefaultMarketConditions ==
    [price_elasticity |-> Rat(-12, 10),
     income_elasticity |-> Rat(8, 10),
     cross_elasticity |-> Rat(-3, 10),
     seasonal_factor |-> ROne,
     competitive_response |-> "moderate"]

\* variant: an unrecognized response level adds no adjustment
CompetitiveAdjustmentNoDefault(response_level) ==
    LET level == Lower(response_level)
    IN  CASE level = "none" -> RZero
          [] level = "low" -> Rat(-2, 100)
          [] level = "moderate" -> Rat(-5, 100)
          [] level = "high" -> Rat(-10, 100)
          [] level = "aggressive" -> Rat(-15, 100)
          [] OTHER -> RZero

_calculate_competitive_adjustment(response_level) ==
    LET level == Lower(response_level)
    IN  CASE level = "none" -> RZero
          [] level = "low" -> Rat(-2, 100)
          [] level = "moderate" -> Rat(-5, 100)
          [] level = "high" -> Rat(-10, 100)
          [] level = "aggressive" -> Rat(-15, 100)
          [] OTHER -> Rat(-5, 100)

\* total_demand_change of one change (lines 86-95); keys are present
TotalDemandChange(change, market_conditions) ==
    LET price_change_percent == RDiv(change.price_change_percent, RHundred)
        base_demand_change ==
            RMul(price_change_percent, market_conditions.price_elasticity)
        seasonal_adjustment ==
            RSub(Get(market_conditions, "seasonal_factor", ROne), ROne)
        competitive_adjustment ==
            _calculate_competitive_adjustment(
                Get(market_conditions, "competitive_response", "moderate"))
    IN  RAdd(RAdd(base_demand_change, seasonal_adjustment),
             competitive_adjustment)

\* one pass of the loop body (lines 84-122): the entry appended to
\* simulations, or the exception that leaves the loop
SimulateChange(change, market_conditions) ==
    IF "price_change_percent" \notin DOMAIN change
    THEN Raised("KeyError: 'price_change_percent'")
    ELSE IF "price_elasticity" \notin DOMAIN market_conditions
    THEN Raised("KeyError: 'price_elasticity'")
    ELSE IF "current_price" \notin DOMAIN change
    THEN Raised("KeyError: 'current_price'")
    ELSE IF "new_price" \notin DOMAIN change
    THEN Raised("KeyError: 'new_price'")
    ELSE IF "product_name" \notin DOMAIN change
    THEN Raised("KeyError: 'product_name'")
    ELSE
    LET Entry(total_demand_change, current_volume, new_volume, current_revenue, new_revenue) ==
        IF RIsZero(current_revenue)
        THEN Raised("ZeroDivisionError")
        ELSE Returned(
          [product_name |-> change.product_name,
           price_change_percent |-> change.price_change_percent,
           demand_change_percent |->
               Round(RMul(total_demand_change, RHundred), 2),
           current_volume |-> current_volume,
           projected_volume |-> Round(new_volume, 0),
           volume_change |-> Round(RSub(new_volume, current_volume), 0),
           current_revenue |-> Round(current_revenue, 2),
           projected_revenue |-> Round(new_revenue, 2),
           revenue_change |-> Round(RSub(new_revenue, current_revenue), 2),
           revenue_change_percent |->
               Round(RMul(RDiv(RSub(new_revenue, current_revenue),
                               current_revenue), RHundred), 2),
           elasticity_factors |->
               [base_elasticity |-> market_conditions.price_elasticity,
                seasonal_adjustment |->
                    RSub(Get(market_conditions, "seasonal_factor", ROne), ROne),
                competitive_adjustment |->
                    _calculate_competitive_adjustment(
                        Get(market_conditions, "competitive_response",
                            "moderate"))]])
        Revenues(total_demand_change, current_volume, new_volume) ==
            Entry(total_demand_change, current_volume, new_volume,
                  RMul(change.current_price, current_volume),
                  RMul(change.new_price, new_volume))
        Volumes(total_demand_change, current_volume) ==
            Revenues(total_demand_change, current_volume,
                     RMul(current_volume, RAdd(ROne, total_demand_change)))
    IN  Volumes(TotalDemandChange(change, market_conditions),
                Get(change, "current_monthly_volume", RHundred))

Field(seq, k) == [i \in 1..Len(seq) |-> seq[i][k]]
CountPositive(seq, k) ==
    Cardinality({i \in 1..Len(seq) : RGt(seq[i][k], RZero)})
CountNegative(seq, k) ==
    Cardinality({i \in 1..Len(seq) : RLt(seq[i][k], RZero)})

_calculate_aggregate_impact(simulations) ==
    LET Totals(total_current_revenue, total_projected_revenue, total_volume_change) ==
        IF RIsZero(total_current_revenue)
        THEN Raised("ZeroDivisionError")
        ELSE Returned(
          [total_revenue_change |->
               Round(RSub(total_projected_revenue, total_current_revenue), 2),
           total_revenue_change_percent |->
               Round(RMul(RDiv(RSub(total_projected_revenue,
                                    total_current_revenue),
                               total_current_revenue), RHundred), 2),
           total_volume_change |-> total_volume_change,
           products_with_positive_impact |->
               CountPositive(simulations, "revenue_change"),
           products_with_negative_impact |->
               CountNegative(simulations, "revenue_change"),
           average_price_change |->
               RDiv(RSum(Field(simulations, "price_change_percent")),
                    RInt(Len(simulations)))])
    IN  Totals(RSum(Field(simulations, "current_revenue")),
               RSum(Field(simulations, "projected_revenue")),
               RSum(Field(simulations, "volume_change")))

simulate_demand_impact(pricing_changes, market_conditions_arg, now) ==
    LET Result(market_conditions, simulations, aggregate_impact) ==
            IF aggregate_impact.outcome = "raised" THEN aggregate_impact
            ELSE Returned(
              [simulations |-> simulations,
               market_conditions |-> market_conditions,
               aggregate_impact |-> aggregate_impact.value,
               generated_at |-> now])
        Aggregate(market_conditions, simulations) ==
            Result(market_conditions, simulations,
                   _calculate_aggregate_impact(simulations))
        Loop(market_conditions, passes) ==
            IF AnyRaised(passes) THEN FirstRaised(passes)
            ELSE Aggregate(market_conditions, Values(passes))
        Simulate(market_conditions) ==
            Loop(market_conditions,
                 [i \in 1..Len(pricing_changes) |->
                     SimulateChange(pricing_changes[i], market_conditions)])
    IN  Simulate(IF IsNone(market_conditions_arg)
                 THEN DefaultMarketConditions ELSE market_conditions_arg)

----------------------------------------------------------------------------
(* Segment impact simulator: impact_simulator.py:157-238 *)

\* variant: the first threshold open, a change of exactly 0.05 still low
AssessSegmentRiskOpenAt005(demand_change, sensitivity) ==
    IF RLe(RAbs(demand_change), Rat(5, 100)) THEN "low"
    ELSE IF RLt(RAbs(demand_change), Rat(15, 100)) THEN "medium"
    ELSE IF RLt(RAbs(demand_change), Rat(25, 100)) THEN "high"
    ELSE "very_high"

_assess_segment_risk(demand_change, sensitivity) ==
    IF RLt(RAbs(demand_change), Rat(5, 100)) THEN "low"
    ELSE IF RLt(RAbs(demand_change), Rat(15, 100)) THEN "medium"
    ELSE IF RLt(RAbs(demand_change), Rat(25, 100)) THEN "high"
    ELSE "very_high"

\* variant: a tier outside the table treated as the least sensitive one
SegmentElasticityUnknownAsLow(price_sensitivity) ==
    CASE price_sensitivity = "low" -> Rat(-8, 10)
      [] price_sensitivity = "medium" -> Rat(-12, 10)
      [] price_sensitivity = "high" -> Rat(-18, 10)
      [] price_sensitivity = "very_high" -> Rat(-25, 10)
      [] OTHER -> Rat(-8, 10)

\* elasticity_map.get(price_sensitivity, -1.2), lines 177-183
SegmentElasticity(price_sensitivity) ==
    CASE price_sensitivity = "low" -> Rat(-8, 10)
      [] price_sensitivity = "medium" -> Rat(-12, 10)
      [] price_sensitivity = "high" -> Rat(-18, 10)
      [] price_sensitivity = "very_high" -> Rat(-25, 10)
      [] OTHER -> Rat(-12, 10)

\* one pass of the inner loop (lines 193-207)
SegmentProductImpact(change, segment_elasticity, segment_size, price_sensitivity) ==
    IF "price_change_percent" \notin DOMAIN change
    THEN Raised("KeyError: 'price_change_percent'")
    ELSE IF "product_name" \notin DOMAIN change
    THEN Raised("KeyError: 'product_name'")
    ELSE
    LET Entry(demand_change, segment_volume_impact) ==
        Returned(
          [product_name |-> change.product_name,
           segment_demand_change_percent |->
               Round(RMul(demand_change, RHundred), 2),
           segment_contribution_to_total |->
               Round(RMul(segment_volume_impact, RHundred), 2),
           risk_level |->
               _assess_segment_risk(demand_change, price_sensitivity)])
        Impact(demand_change) ==
            Entry(demand_change,
                  RMul(demand_change, RDiv(segment_size, RHundred)))
    IN  Impact(RMul(RDiv(change.price_change_percent, RHundred),
                    segment_elasticity))

\* one pass of the outer loop (lines 171-209)
SegmentImpact(segment, pricing_changes) ==
    IF "name" \notin DOMAIN segment THEN Raised("KeyError: 'name'")
    ELSE
    LET Result(price_sensitivity, segment_size, segment_elasticity, passes) ==
        IF AnyRaised(passes) THEN FirstRaised(passes)
        ELSE Returned(
          [segment_name |-> segment.name,
           segment_size_percent |-> segment_size,
           price_sensitivity |-> price_sensitivity,
           elasticity |-> segment_elasticity,
           product_impacts |-> Values(passes)])
        Loop(price_sensitivity, segment_size, segment_elasticity) ==
            Result(price_sensitivity, segment_size, segment_elasticity,
                   [i \in 1..Len(pricing_changes) |->
                       SegmentProductImpact(pricing_changes[i],
                           segment_elasticity, segment_size,
                           price_sensitivity)])
        Profile(price_sensitivity) ==
            Loop(price_sensitivity, Get(segment, "size_percent", RInt(25)),
                 SegmentElasticity(price_sensitivity))
    IN  Profile(Get(segment, "price_sensitivity", "medium"))

IsHighRiskSegment(s) ==
    \E i \in 1..Len(s.product_impacts) :
        s.product_impacts[i].risk_level \in {"high", "very_high"}

\* variant: high already when half of the segments are high-risk
AssessOverallSegmentRiskFromHalf(segment_impacts) ==
    LET Assessment(high_risk_segments) ==
        [high_risk_segment_count |-> Len(high_risk_segments),
         high_risk_segments |-> Field(high_risk_segments, "segment_name"),
         overall_risk_level |->
             IF 2 * Len(high_risk_segments) >= Len(segment_impacts)
             THEN "high" ELSE "medium"]
    IN  Assessment(SelectSeq(segment_impacts, IsHighRiskSegment))

_assess_overall_segment_risk(segment_impacts) ==
    LET Assessment(high_risk_segments) ==
        [high_risk_segment_count |-> Len(high_risk_segments),
         high_risk_segments |-> Field(high_risk_segments, "segment_name"),
         overall_risk_level |->
             IF 2 * Len(high_risk_segments) > Len(segment_impacts)
             THEN "high" ELSE "medium"]
    IN  Assessment(SelectSeq(segment_impacts, IsHighRiskSegment))

simulate_customer_segment_impact(pricing_changes, customer_segments, now) ==
    LET Result(segment_impacts) ==
            Returned(
              [segment_impacts |-> segment_impacts,
               overall_risk_assessment |->
                   _assess_overall_segment_risk(segment_impacts),
               generated_at |-> now])
        Loop(passes) ==
            IF AnyRaised(passes) THEN FirstRaised(passes)
            ELSE Result(Values(passes))
    IN  Loop([i \in 1..Len(customer_segments) |->
                 SegmentImpact(customer_segments[i], pricing_changes)])

----------------------------------------------------------------------------
(* Competitive response simulator: impact_simulator.py:240-362 *)

RMin(x, y) == IF RLt(y, x) THEN y ELSE x

\* variant: the base probability not held at 0.8
ResponseProbabilityBaseUnbounded(price_change_magnitude, aggressiveness, market_share) ==
    LET base_probability ==
            RDiv(price_change_magnitude, RInt(20))
        aggressiveness_multiplier ==
            CASE aggressiveness = "low" -> Rat(7, 10)
              [] aggressiveness = "medium" -> ROne
              [] aggressiveness = "high" -> Rat(13, 10)
              [] aggressiveness = "very_high" -> Rat(16, 10)
              [] OTHER -> ROne
        market_share_multiplier == RAdd(ROne, RDiv(market_share, RHundred))
        probability ==
            RMul(RMul(base_probability, aggressiveness_multiplier),
                 market_share_multiplier)
    IN  RMin(probability, Rat(95, 100))

\* variant: the product returned without the cap at 0.95
ResponseProbabilityUncapped(price_change_magnitude, aggressiveness, market_share) ==
    LET base_probability ==
            RMin(RDiv(price_change_magnitude, RInt(20)), Rat(8, 10))
        aggressiveness_multiplier ==
            CASE aggressiveness = "low" -> Rat(7, 10)
              [] aggressiveness = "medium" -> ROne
              [] aggressiveness = "high" -> Rat(13, 10)
              [] aggressiveness = "very_high" -> Rat(16, 10)
              [] OTHER -> ROne
        market_share_multiplier == RAdd(ROne, RDiv(market_share, RHundred))
        probability ==
            RMul(RMul(base_probability, aggressiveness_multiplier),
                 market_share_multiplier)
    IN  probability

_calculate_response_probability(price_change_magnitude, aggressiveness, market_share) ==
    LET base_probability ==
            RMin(RDiv(price_change_magnitude, RInt(20)), Rat(8, 10))
        aggressiveness_multiplier ==
            CASE aggressiveness = "low" -> Rat(7, 10)
              [] aggressiveness = "medium" -> ROne
              [] aggressiveness = "high" -> Rat(13, 10)
              [] aggressiveness = "very_high" -> Rat(16, 10)
              [] OTHER -> ROne
        market_share_multiplier == RAdd(ROne, RDiv(market_share, RHundred))
        probability ==
            RMul(RMul(base_probability, aggressiveness_multiplier),
                 market_share_multiplier)
    IN  RMin(probability, Rat(95, 100))

\* variant: a competitor of low aggressiveness does not move its price
EstimateResponseLowHolds(change, aggressiveness, market_share) ==
    LET our_change_percent == change.price_change_percent
        response_ratio ==
            CASE aggressiveness = "low" -> RZero
              [] aggressiveness = "medium" -> Rat(6, 10)
              [] aggressiveness = "high" -> Rat(9, 10)
              [] aggressiveness = "very_high" -> Rat(12, 10)
              [] OTHER -> Rat(6, 10)
        Response(competitor_response_percent, impact_magnitude) ==
            [response_percent |-> Round(competitor_response_percent, 2),
             type |->
                 IF RGt(our_change_percent, RZero)
                 THEN (IF RGt(competitor_response_percent, RZero)
                       THEN "follow_increase" ELSE "maintain_price")
                 ELSE (IF RLt(competitor_response_percent, RZero)
                       THEN "follow_decrease" ELSE "price_war"),
             impact_on_us |->
                 Round(IF RLt(RMul(competitor_response_percent,
                                   our_change_percent), RZero)
                       THEN RNeg(impact_magnitude) ELSE impact_magnitude, 3)]
        Impact(competitor_response_percent) ==
            Response(competitor_response_percent,
                     RMul(RMul(RAbs(competitor_response_percent),
                               RDiv(market_share, RHundred)), Rat(5, 10)))
    IN  Impact(RMul(our_change_percent, response_ratio))

\* variant: the test of the price-cut branch reversed
EstimateResponseCutReversed(change, aggressiveness, market_share) ==
    LET our_change_percent == change.price_change_percent
        response_ratio ==
            CASE aggressiveness = "low" -> Rat(3, 10)
              [] aggressiveness = "medium" -> Rat(6, 10)
              [] aggressiveness = "high" -> Rat(9, 10)
              [] aggressiveness = "very_high" -> Rat(12, 10)
              [] OTHER -> Rat(6, 10)
        Response(competitor_response_percent, impact_magnitude) ==
            [response_percent |-> Round(competitor_response_percent, 2),
             type |->
                 IF RGt(our_change_percent, RZero)
                 THEN (IF RGt(competitor_response_percent, RZero)
                       THEN "follow_increase" ELSE "maintain_price")
                 ELSE (IF RGt(competitor_response_percent, RZero)
                       THEN "follow_decrease" ELSE "price_war"),
             impact_on_us |->
                 Round(IF RLt(RMul(competitor_response_percent,
                                   our_change_percent), RZero)
                       THEN RNeg(impact_magnitude) ELSE impact_magnitude, 3)]
        Impact(competitor_response_percent) ==
            Response(competitor_response_percent,
                     RMul(RMul(RAbs(competitor_response_percent),
                               RDiv(market_share, RHundred)), Rat(5, 10)))
    IN  Impact(RMul(our_change_percent, response_ratio))

\* variant: the impact taken on the whole market share, not half of it
EstimateResponseFullShare(change, aggressiveness, market_share) ==
    LET our_change_percent == change.price_change_percent
        response_ratio ==
            CASE aggressiveness = "low" -> Rat(3, 10)
              [] aggressiveness = "medium" -> Rat(6, 10)
              [] aggressiveness = "high" -> Rat(9, 10)
              [] aggressiveness = "very_high" -> Rat(12, 10)
              [] OTHER -> Rat(6, 10)
        Response(competitor_response_percent, impact_magnitude) ==
            [response_percent |-> Round(competitor_response_percent, 2),
             type |->
                 IF RGt(our_change_percent, RZero)
                 THEN (IF RGt(competitor_response_percent, RZero)
                       THEN "follow_increase" ELSE "maintain_price")
                 ELSE (IF RLt(competitor_response_percent, RZero)
                       THEN "follow_decrease" ELSE "price_war"),
             impact_on_us |->
                 Round(IF RLt(RMul(competitor_response_percent,
                                   our_change_percent), RZero)
                       THEN RNeg(impact_magnitude) ELSE impact_magnitude, 3)]
        Impact(competitor_response_percent) ==
            Response(competitor_response_percent,
                     RMul(RMul(RAbs(competitor_response_percent),
                               RDiv(market_share, RHundred)), ROne))
    IN  Impact(RMul(our_change_percent, response_ratio))

\* change['price_change_percent'] is present (line 264 read it before)
_estimate_competitor_response(change, aggressiveness, market_share) ==
    LET our_change_percent == change.price_change_percent
        response_ratio ==
            CASE aggressiveness = "low" -> Rat(3, 10)
              [] aggressiveness = "medium" -> Rat(6, 10)
              [] aggressiveness = "high" -> Rat(9, 10)
              [] aggressiveness = "very_high" -> Rat(12, 10)
              [] OTHER -> Rat(6, 10)
        Response(competitor_response_percent, impact_magnitude) ==
            [response_percent |-> Round(competitor_response_percent, 2),
             type |->
                 IF RGt(our_change_percent, RZero)
                 THEN (IF RGt(competitor_response_percent, RZero)
                       THEN "follow_increase" ELSE "maintain_price")
                 ELSE (IF RLt(competitor_response_percent, RZero)
                       THEN "follow_decrease" ELSE "price_war"),
             impact_on_us |->
                 Round(IF RLt(RMul(competitor_response_percent,
                                   our_change_percent), RZero)
                       THEN RNeg(impact_magnitude) ELSE impact_magnitude, 3)]
        Impact(competitor_response_percent) ==
            Response(competitor_response_percent,
                     RMul(RMul(RAbs(competitor_response_percent),
                               RDiv(market_share, RHundred)), Rat(5, 10)))
    IN  Impact(RMul(our_change_percent, response_ratio))

\* variant: an entry also for a probability of exactly 0.3
CompetitorChangeResponseFrom03(change, aggressiveness, market_share, response_speed) ==
    IF "price_change_percent" \notin DOMAIN change
    THEN Raised("KeyError: 'price_change_percent'")
    ELSE
    LET Entry(response_probability, competitor_response) ==
        IF ~RGe(response_probability, Rat(3, 10))
        THEN Returned([emit |-> FALSE])
        ELSE IF "product_name" \notin DOMAIN change
        THEN Raised("KeyError: 'product_name'")
        ELSE Returned(
          [emit |-> TRUE,
           entry |->
             [product_category |-> change.product_name,
              response_probability |-> Round(response_probability, 2),
              estimated_response_percent |->
                  competitor_response.response_percent,
              response_timeframe_days |-> response_speed,
              impact_on_our_demand |-> competitor_response.impact_on_us,
              response_type |-> competitor_response.type]])
    IN  Entry(_calculate_response_probability(
                  RAbs(change.price_change_percent), aggressiveness,
                  market_share),
              _estimate_competitor_response(change, aggressiveness,
                                            market_share))

\* one pass of the inner loop (lines 262-283): emit tells whether an entry
\* is appended to competitor_responses
CompetitorChangeResponse(change, aggressiveness, market_share, response_speed) ==
    IF "price_change_percent" \notin DOMAIN change
    THEN Raised("KeyError: 'price_change_percent'")
    ELSE
    LET Entry(response_probability, competitor_response) ==
        IF ~RGt(response_probability, Rat(3, 10))
        THEN Returned([emit |-> FALSE])
        ELSE IF "product_name" \notin DOMAIN change
        THEN Raised("KeyError: 'product_name'")
        ELSE Returned(
          [emit |-> TRUE,
           entry |->
             [product_category |-> change.product_name,
              response_probability |-> Round(response_probability, 2),
              estimated_response_percent |->
                  competitor_response.response_percent,
              response_timeframe_days |-> response_speed,
              impact_on_our_demand |-> competitor_response.impact_on_us,
              response_type |-> competitor_response.type]])
    IN  Entry(_calculate_response_probability(
                  RAbs(change.price_change_percent), aggressiveness,
                  market_share),
              _estimate_competitor_response(change, aggressiveness,
                                            market_share))

Emitted(p) == p.emit
Entries(passes) == Field(SelectSeq(passes, Emitted), "entry")

\* one pass of the outer loop (lines 254-291)
CompetitorScenario(competitor, pricing_changes) ==
    IF "name" \notin DOMAIN competitor THEN Raised("KeyError: 'name'")
    ELSE
    LET aggressiveness == Get(competitor, "aggressiveness", "medium")
        market_share == Get(competitor, "market_share_percent", RInt(20))
        response_speed == Get(competitor, "response_speed_days", 30)
        Result(competitor_responses) ==
            Returned(
              [emit |-> competitor_responses # <<>>,
               entry |->
                 [competitor_name |-> competitor.name,
                  aggressiveness_level |-> aggressiveness,
                  market_share_percent |-> market_share,
                  responses |-> competitor_responses]])
        Loop(passes) ==
            IF AnyRaised(passes) THEN FirstRaised(passes)
            ELSE Result(Entries(Values(passes)))
    IN  Loop([i \in 1..Len(pricing_changes) |->
                 CompetitorChangeResponse(pricing_changes[i],
                     aggressiveness, market_share, response_speed)])

IsHighProbability(r) == RGt(r.response_probability, Rat(7, 10))

\* the responses of all scenarios, in order
RECURSIVE AllResponses(_)
AllResponses(scenarios) ==
    IF scenarios = <<>> THEN <<>>
    ELSE Head(scenarios).responses \o AllResponses(Tail(scenarios))

_summarize_competitive_impact(scenarios) ==
    LET Summary(total_scenarios, high_probability_responses) ==
        [total_competitive_scenarios |-> total_scenarios,
         high_probability_responses |-> high_probability_responses,
         competitive_risk_level |->
             IF 2 * high_probability_responses > total_scenarios
             THEN "high" ELSE "medium"]
        Tally(responses) ==
            Summary(Len(responses),
                    Len(SelectSeq(responses, IsHighProbability)))
    IN  Tally(AllResponses(scenarios))

simulate_competitive_response(pricing_changes, competitor_profiles, now) ==
    LET Result(response_scenarios) ==
            Returned(
              [competitive_scenarios |-> response_scenarios,
               summary |-> _summarize_competitive_impact(response_scenarios),
               generated_at |-> now])
        Loop(passes) ==
            IF AnyRaised(passes) THEN FirstRaised(passes)
            ELSE Result(Entries(Values(passes)))
    IN  Loop([i \in 1..Len(competitor_profiles) |->
                 CompetitorScenario(competitor_profiles[i], pricing_changes)])

----------------------------------------------------------------------------
(* Monte Carlo risk engine: impact_simulator.py:364-430                    *)
(*                                                                         *)
(* The draws of the process-wide numpy generator are the environment's:    *)
(* a sample is a sequence of blocks, each a number of consecutive runs     *)
(* with the same three draws.  z_elasticity and z_seasonal are the         *)
(* standard normal deviates behind np.random.normal(mean, std), and        *)
(* u_competitive in [0, 1) is the deviate behind np.random.uniform.        *)
(* np.std is a square root: the model keeps whether it is zero.            *)

DefaultNumSimulations == 1000

Normal(mean, std, z) == RAdd(mean, RMul(z, std))
Uniform(low, high, u) == RAdd(low, RMul(u, RSub(high, low)))

RECURSIVE TotalRuns(_)
TotalRuns(blocks) ==
    IF blocks = <<>> THEN 0 ELSE Head(blocks).runs + TotalRuns(Tail(blocks))

\* variant: the competitive intensity of the run left out of the demand
RunChangeRevenueNoCompetition(change, elasticity, seasonal_factor, competitive_intensity) ==
    IF "price_change_percent" \notin DOMAIN change
    THEN Raised("KeyError: 'price_change_percent'")
    ELSE IF "new_price" \notin DOMAIN change
    THEN Raised("KeyError: 'new_price'")
    ELSE
    LET price_change_percent == RDiv(change.price_change_percent, RHundred)
        demand_change ==
            RMul(RMul(price_change_percent, elasticity), seasonal_factor)
        current_volume == Get(change, "current_monthly_volume", RHundred)
        new_volume == RMul(current_volume, RAdd(ROne, demand_change))
    IN  Returned(RMul(change.new_price, new_volume))

\* revenue of one change in one run (lines 400-405)
RunChangeRevenue(change, elasticity, seasonal_factor, competitive_intensity) ==
    IF "price_change_percent" \notin DOMAIN change
    THEN Raised("KeyError: 'price_change_percent'")
    ELSE IF "new_price" \notin DOMAIN change
    THEN Raised("KeyError: 'new_price'")
    ELSE
    LET price_change_percent == RDiv(change.price_change_percent, RHundred)
        demand_change ==
            RSub(RMul(RMul(price_change_percent, elasticity), seasonal_factor),
                 competitive_intensity)
        current_volume == Get(change, "current_monthly_volume", RHundred)
        new_volume == RMul(current_volume, RAdd(ROne, demand_change))
    IN  Returned(RMul(change.new_price, new_volume))

\* simulation_revenue of one run (lines 382-408)
RunRevenue(pricing_changes, uncertainty_ranges, draw) ==
    LET Loop(passes) ==
            IF AnyRaised(passes) THEN FirstRaised(passes)
            ELSE Returned(RSum(Values(passes)))
        Run(elasticity, seasonal_factor, competitive_intensity) ==
            Loop([i \in 1..Len(pricing_changes) |->
                     RunChangeRevenue(pricing_changes[i], elasticity,
                         seasonal_factor, competitive_intensity)])
    IN  Run(Normal(Get(uncertainty_ranges, "elasticity_mean", Rat(-12, 10)),
                   Get(uncertainty_ranges, "elasticity_std", Rat(3, 10)),
                   draw.z_elasticity),
            Normal(Get(uncertainty_ranges, "seasonal_mean", ROne),
                   Get(uncertainty_ranges, "seasonal_std", Rat(1, 10)),
                   draw.z_seasonal),
            Uniform(Get(uncertainty_ranges, "competitive_min", RZero),
                    Get(uncertainty_ranges, "competitive_max", Rat(2, 10)),
                    draw.u_competitive))

\* statistics of results, a sequence of [runs, value] blocks
RunsBelow(results, x) ==
    TotalRuns(SelectSeq(results, LAMBDA b : RLt(b.value, x)))
RunsAtMost(results, x) ==
    TotalRuns(SelectSeq(results, LAMBDA b : RLe(b.value, x)))

\* the k-th smallest result, k counted from 0
ElementAt(results, k) ==
    LET values == {results[i].value : i \in 1..Len(results)}
    IN  CHOOSE v \in values :
            RunsBelow(results, v) <= k /\ k < RunsAtMost(results, v)

Mean(results) ==
    LET Weighted(n) ==
            RSum([i \in 1..Len(results) |->
                     RMul(Rat(results[i].runs, n), results[i].value)])
    IN  Weighted(TotalRuns(results))

\* np.percentile(a, q): linear interpolation between the closest ranks
Percentile(results, q) ==
    LET Interpolate(frac, a, b) == RAdd(a, RMul(frac, RSub(b, a)))
        Between(n, pos, lo) ==
            Interpolate(Rat(pos % 100, 100), ElementAt(results, lo),
                ElementAt(results, IF lo + 1 > n - 1 THEN n - 1 ELSE lo + 1))
        Rank(n, pos) == Between(n, pos, pos \div 100)
        Position(n) == Rank(n, (n - 1) * q)
    IN  Position(TotalRuns(results))

\* whether np.std is zero: all results are equal
StdSign(results) ==
    IF \A i, j \in 1..Len(results) : results[i].value = results[j].value
    THEN "zero" ELSE "positive"

\* variant: a zero mean reported as a coefficient of 0
CoefficientOfVariationZeroGuard(results) ==
    LET Ratio(mean, std) ==
            IF RIsZero(mean) THEN "zero"
            ELSE IF std = "zero" THEN "zero"
            ELSE IF RGt(mean, RZero) THEN "positive" ELSE "negative"
    IN  Ratio(Mean(results), StdSign(results))

\* np.std / np.mean on numpy floats: nan or inf for a zero mean, no exception
CoefficientOfVariation(results) ==
    LET Ratio(mean, std) ==
            IF RIsZero(mean)
            THEN (IF std = "zero" THEN "nan" ELSE "inf")
            ELSE IF std = "zero" THEN "zero"
            ELSE IF RGt(mean, RZero) THEN "positive" ELSE "negative"
    IN  Ratio(Mean(results), StdSign(results))

\* variant: a run with revenue exactly 0 counted as a loss
MonteCarloLossAtMostZero(pricing_changes, uncertainty_ranges, num_simulations, sample, now) ==
    LET Statistics(results) ==
        Returned(
          [simulation_runs |-> num_simulations,
           revenue_statistics |->
             [mean |-> Round(Mean(results), 2),
              median |-> Round(Percentile(results, 50), 2),
              std |-> StdSign(results),
              min |-> Round(ElementAt(results, 0), 2),
              max |-> Round(ElementAt(results, num_simulations - 1), 2),
              percentile_5 |-> Round(Percentile(results, 5), 2),
              percentile_95 |-> Round(Percentile(results, 95), 2)],
           risk_metrics |->
             [probability_of_loss |->
                  Round(Rat(RunsAtMost(results, RZero), num_simulations), 3),
              value_at_risk_5pct |-> Round(Percentile(results, 5), 2),
              coefficient_of_variation |-> CoefficientOfVariation(results)],
           generated_at |-> now])
        Loop(passes) ==
            IF num_simulations = 0 THEN Raised("ValueError")
            ELSE IF AnyRaised(passes) THEN FirstRaised(passes)
            ELSE Statistics([i \in 1..Len(sample) |->
                                [runs |-> sample[i].runs,
                                 value |-> passes[i].value]])
    IN  Loop([i \in 1..Len(sample) |->
                 RunRevenue(pricing_changes, uncertainty_ranges, sample[i])])

run_monte_carlo_simulation(pricing_changes, uncertainty_ranges, num_simulations, sample, now) ==
    LET Statistics(results) ==
        Returned(
          [simulation_runs |-> num_simulations,
           revenue_statistics |->
             [mean |-> Round(Mean(results), 2),
              median |-> Round(Percentile(results, 50), 2),
              std |-> StdSign(results),
              min |-> Round(ElementAt(results, 0), 2),
              max |-> Round(ElementAt(results, num_simulations - 1), 2),
              percentile_5 |-> Round(Percentile(results, 5), 2),
              percentile_95 |-> Round(Percentile(results, 95), 2)],
           risk_metrics |->
             [probability_of_loss |->
                  Round(Rat(RunsBelow(results, RZero), num_simulations), 3),
              value_at_risk_5pct |-> Round(Percentile(results, 5), 2),
              coefficient_of_variation |-> CoefficientOfVariation(results)],
           generated_at |-> now])
        Loop(passes) ==
            IF num_simulations = 0 THEN Raised("ValueError")
            ELSE IF AnyRaised(passes) THEN FirstRaised(passes)
            ELSE Statistics([i \in 1..Len(sample) |->
                                [runs |-> sample[i].runs,
                                 value |-> passes[i].value]])
    IN  Loop([i \in 1..Len(sample) |->
                 RunRevenue(pricing_changes, uncertainty_ranges, sample[i])])

----------------------------------------------------------------------------
(* Overall risk level: impact_simulator.py:562-591 *)

EmptyDict == [k \in {} |-> TRUE]

\* truth value of an Optional[Dict]: None and {} are false
Truthy(d) == ~IsNone(d) /\ DOMAIN d # {}

\* d.get(outer, {}).get(inner), with "None" for the missing value
GetNested(d, outer, inner) == Get(Get(d, outer, EmptyDict), inner, "None")

\* 'high' in r, for the risk factors the method appends
ContainsHigh(r) ==
    r \in {"high_monte_carlo", "high_segment", "high_competitive"}

\* variant: a probability of loss of exactly 0.3 already counts as high
AssessOverallRiskLevelClosedAt03(monte_carlo, segment_impact, competitive_impact) ==
    LET prob_loss == monte_carlo.risk_metrics.probability_of_loss
        monte_carlo_factors ==
            IF RGe(prob_loss, Rat(3, 10)) THEN <<"high_monte_carlo">>
            ELSE IF RGt(prob_loss, Rat(1, 10)) THEN <<"medium_monte_carlo">>
            ELSE <<>>
        segment_factors ==
            IF /\ Truthy(segment_impact)
               /\ GetNested(segment_impact, "overall_risk_assessment",
                            "overall_risk_level") = "high"
            THEN <<"high_segment">> ELSE <<>>
        competitive_factors ==
            IF /\ Truthy(competitive_impact)
               /\ GetNested(competitive_impact, "summary",
                            "competitive_risk_level") = "high"
            THEN <<"high_competitive">> ELSE <<>>
        risk_factors ==
            monte_carlo_factors \o segment_factors \o competitive_factors
        high_risk_count == Len(SelectSeq(risk_factors, ContainsHigh))
    IN  IF high_risk_count >= 2 THEN "high"
        ELSE IF high_risk_count = 1 \/ Len(risk_factors) >= 2 THEN "medium"
        ELSE "low"

\* variant: any one risk factor, the medium one included, gives medium
AssessOverallRiskLevelAnyFactor(monte_carlo, segment_impact, competitive_impact) ==
    LET prob_loss == monte_carlo.risk_metrics.probability_of_loss
        monte_carlo_factors ==
            IF RGt(prob_loss, Rat(3, 10)) THEN <<"high_monte_carlo">>
            ELSE IF RGt(prob_loss, Rat(1, 10)) THEN <<"medium_monte_carlo">>
            ELSE <<>>
        segment_factors ==
            IF /\ Truthy(segment_impact)
               /\ GetNested(segment_impact, "overall_risk_assessment",
                            "overall_risk_level") = "high"
            THEN <<"high_segment">> ELSE <<>>
        competitive_factors ==
            IF /\ Truthy(competitive_impact)
               /\ GetNested(competitive_impact, "summary",
                            "competitive_risk_level") = "high"
            THEN <<"high_competitive">> ELSE <<>>
        risk_factors ==
            monte_carlo_factors \o segment_factors \o competitive_factors
        high_risk_count == Len(SelectSeq(risk_factors, ContainsHigh))
    IN  IF high_risk_count >= 2 THEN "high"
        ELSE IF high_risk_count = 1 \/ Len(risk_factors) >= 1 THEN "medium"
        ELSE "low"

_assess_overall_risk_level(monte_carlo, segment_impact, competitive_impact) ==
    LET prob_loss == monte_carlo.risk_metrics.probability_of_loss
        monte_carlo_factors ==
            IF RGt(prob_loss, Rat(3, 10)) THEN <<"high_monte_carlo">>
            ELSE IF RGt(prob_loss, Rat(1, 10)) THEN <<"medium_monte_carlo">>
            ELSE <<>>
        segment_factors ==
            IF /\ Truthy(segment_impact)
               /\ GetNested(segment_impact, "overall_risk_assessment",
                            "overall_risk_level") = "high"
            THEN <<"high_segment">> ELSE <<>>
        competitive_factors ==
            IF /\ Truthy(competitive_impact)
               /\ GetNested(competitive_impact, "summary",
                            "competitive_risk_level") = "high"
            THEN <<"high_competitive">> ELSE <<>>
        risk_factors ==
            monte_carlo_factors \o segment_factors \o competitive_factors
        high_risk_count == Len(SelectSeq(risk_factors, ContainsHigh))
    IN  IF high_risk_count >= 2 THEN "high"
        ELSE IF high_risk_count = 1 \/ Len(risk_factors) >= 2 THEN "medium"
        ELSE "low"

----------------------------------------------------------------------------
(* Report assembly and history: impact_simulator.py:432-560, 614-631 *)

\* variant: an empty list taken as given
GivenListEmptyIncluded(args, k) == k \in DOMAIN args

\* optional list argument: absent (None) and [] are both false
GivenList(args, k) == k \in DOMAIN args /\ args[k] # <<>>

\* uncertainty_ranges of lines 460-467
ReportUncertaintyRanges(market_conditions) ==
    [elasticity_mean |->
         IF Truthy(market_conditions)
         THEN Get(market_conditions, "price_elasticity", Rat(-12, 10))
         ELSE Rat(-12, 10),
     elasticity_std |-> Rat(3, 10),
     seasonal_mean |-> ROne,
     seasonal_std |-> Rat(1, 10),
     competitive_min |-> RZero,
     competitive_max |-> Rat(15, 100)]

\* the dict of lines 536-551
\* variant: the probability of loss itself reported as success probability
ComprehensiveReportLossAsSuccess(text, demand_impact, segment_impact, competitive_impact, monte_carlo, now) ==
    [executive_summary |-> text,
     detailed_analysis |->
       [demand_simulation |-> demand_impact,
        segment_analysis |-> segment_impact,
        competitive_analysis |-> competitive_impact,
        risk_analysis |-> monte_carlo],
     key_metrics |->
       [expected_revenue_change |->
            demand_impact.aggregate_impact.total_revenue_change,
        expected_revenue_change_percent |->
            demand_impact.aggregate_impact.total_revenue_change_percent,
        risk_level |->
            _assess_overall_risk_level(monte_carlo, segment_impact,
                                       competitive_impact),
        success_probability |->
            monte_carlo.risk_metrics.probability_of_loss],
     generated_at |-> now]

ComprehensiveReport(text, demand_impact, segment_impact, competitive_impact, monte_carlo, now) ==
    [executive_summary |-> text,
     detailed_analysis |->
       [demand_simulation |-> demand_impact,
        segment_analysis |-> segment_impact,
        competitive_analysis |-> competitive_impact,
        risk_analysis |-> monte_carlo],
     key_metrics |->
       [expected_revenue_change |->
            demand_impact.aggregate_impact.total_revenue_change,
        expected_revenue_change_percent |->
            demand_impact.aggregate_impact.total_revenue_change_percent,
        risk_level |->
            _assess_overall_risk_level(monte_carlo, segment_impact,
                                       competitive_impact),
        success_probability |->
            RSub(ROne, monte_carlo.risk_metrics.probability_of_loss)],
     generated_at |-> now]

\* the dict of line 560; the message is the prefix followed by str(e)
ReportError(e) ==
    [error |-> [prefix |-> "Report generation failed: ", exception |-> e]]

IsReport(value) == "key_metrics" \in DOMAIN value

\* variant: the risk level raised to high once the history holds a report
ComprehensiveReportEscalating(history, args, sample, narrative, now) ==
    LET pricing_changes == args.pricing_changes
        market_conditions == args.market_conditions
        Leave(raised, runs_drawn) ==
            [result |-> raised, simulation_history |-> history,
             runs_drawn |-> runs_drawn]
        Escalated(report) ==
            IF history = <<>> THEN report
            ELSE [report EXCEPT !.key_metrics.risk_level = "high"]
        \* lines 533-560: the try block
        Try(comprehensive_report) ==
            IF narrative.outcome = "raised"
            THEN [result |-> Returned(ReportError(narrative.exc)),
                  simulation_history |-> history,
                  runs_drawn |-> DefaultNumSimulations]
            ELSE [result |-> Returned(comprehensive_report),
                  simulation_history |-> Append(history, comprehensive_report),
                  runs_drawn |-> DefaultNumSimulations]
        \* lines 448-468: the four simulations, in order
        Simulations(demand_impact, segment_impact, competitive_impact, monte_carlo) ==
            IF demand_impact.outcome = "raised" THEN Leave(demand_impact, 0)
            ELSE IF segment_impact.outcome = "raised"
            THEN Leave(segment_impact, 0)
            ELSE IF competitive_impact.outcome = "raised"
            THEN Leave(competitive_impact, 0)
            ELSE IF monte_carlo.outcome = "raised"
            THEN Leave(monte_carlo, 1)
            ELSE Try(Escalated(ComprehensiveReport(narrative.value,
                         demand_impact.value, segment_impact.value,
                         competitive_impact.value, monte_carlo.value, now)))
    IN  Simulations(
            simulate_demand_impact(pricing_changes, market_conditions, now),
            IF GivenList(args, "customer_segments")
            THEN simulate_customer_segment_impact(pricing_changes,
                     args.customer_segments, now)
            ELSE Returned(NoneVal),
            IF GivenList(args, "competitor_profiles")
            THEN simulate_competitive_response(pricing_changes,
                     args.competitor_profiles, now)
            ELSE Returned(NoneVal),
            run_monte_carlo_simulation(pricing_changes,
                ReportUncertaintyRanges(market_conditions),
                DefaultNumSimulations, sample, now))

\* The whole method.  sample is what the random generator yields, narrative
\* is the outcome of self.model.generate_content(prompt).text.  The result
\* is the method's outcome, the history it leaves and the number of runs'
\* worth of draws it took from the generator.
generate_comprehensive_impact_report(history, args, sample, narrative, now) ==
    LET pricing_changes == args.pricing_changes
        market_conditions == args.market_conditions
        Leave(raised, runs_drawn) ==
            [result |-> raised, simulation_history |-> history,
             runs_drawn |-> runs_drawn]
        \* lines 533-560: the try block
        Try(comprehensive_report) ==
            IF narrative.outcome = "raised"
            THEN [result |-> Returned(ReportError(narrative.exc)),
                  simulation_history |-> history,
                  runs_drawn |-> DefaultNumSimulations]
            ELSE [result |-> Returned(comprehensive_report),
                  simulation_history |-> Append(history, comprehensive_report),
                  runs_drawn |-> DefaultNumSimulations]
        \* lines 448-468: the four simulations, in order
        Simulations(demand_impact, segment_impact, competitive_impact, monte_carlo) ==
            IF demand_impact.outcome = "raised" THEN Leave(demand_impact, 0)
            ELSE IF segment_impact.outcome = "raised"
            THEN Leave(segment_impact, 0)
            ELSE IF competitive_impact.outcome = "raised"
            THEN Leave(competitive_impact, 0)
            ELSE IF monte_carlo.outcome = "raised"
            THEN Leave(monte_carlo, 1)
            ELSE Try(ComprehensiveReport(narrative.value,
                         demand_impact.value, segment_impact.value,
                         competitive_impact.value, monte_carlo.value, now))
    IN  Simulations(
            simulate_demand_impact(pricing_changes, market_conditions, now),
            IF GivenList(args, "customer_segments")
            THEN simulate_customer_segment_impact(pricing_changes,
                     args.customer_segments, now)
            ELSE Returned(NoneVal),
            IF GivenList(args, "competitor_profiles")
            THEN simulate_competitive_response(pricing_changes,
                     args.competitor_profiles, now)
            ELSE Returned(NoneVal),
            run_monte_carlo_simulation(pricing_changes,
                ReportUncertaintyRanges(market_conditions),
                DefaultNumSimulations, sample, now))

CountRiskLevel(history, level) ==
    Cardinality({i \in 1..Len(history) :
                    history[i].key_metrics.risk_level = level})

SuccessProbabilities(history) ==
    [i \in 1..Len(history) |-> history[i].key_metrics.success_probability]

\* variant: the latest date is read from the first entry of the history
SimulationHistorySummaryFirstDate(history) ==
    IF history = <<>>
    THEN [message |-> "No simulation history available"]
    ELSE [total_simulations |-> Len(history),
          latest_simulation_date |-> history[1].generated_at,
          average_success_probability |->
              RDiv(RSum(SuccessProbabilities(history)), RInt(Len(history))),
          risk_level_distribution |->
              [high |-> CountRiskLevel(history, "high"),
               medium |-> CountRiskLevel(history, "medium"),
               low |-> CountRiskLevel(history, "low")]]

get_simulation_history_summary(history) ==
    IF history = <<>>
    THEN [message |-> "No simulation history available"]
    ELSE [total_simulations |-> Len(history),
          latest_simulation_date |-> history[Len(history)].generated_at,
          average_success_probability |->
              RDiv(RSum(SuccessProbabilities(history)), RInt(Len(history))),
          risk_level_distribution |->
              [high |-> CountRiskLevel(history, "high"),
               medium |-> CountRiskLevel(history, "medium"),
               low |-> CountRiskLevel(history, "low")]]

----------------------------------------------------------------------------
(* Requests *)

\* the two pricing changes of the example run (impact_simulator.py:651-666)
ChangeA ==
    [product_name |-> "Product A", current_price |-> RInt(100),
     new_price |-> RInt(110), price_change_percent |-> RInt(10),
     current_monthly_volume |-> RInt(1000)]
ChangeB ==
    [product_name |-> "Product B", current_price |-> RInt(150),
     new_price |-> RInt(140), price_change_percent |-> Rat(-667, 100),
     current_monthly_volume |-> RInt(500)]
\* a product that sells nothing yet: current revenue is zero
ChangeZeroVolume ==
    [product_name |-> "Product Z", current_price |-> RInt(100),
     new_price |-> RInt(110), price_change_percent |-> RInt(10),
     current_monthly_volume |-> RInt(0)]
\* a doubling of the price: the demand change falls below -1
ChangeSteep ==
    [product_name |-> "Product S", current_price |-> RInt(100),
     new_price |-> RInt(200), price_change_percent |-> RInt(100),
     current_monthly_volume |-> RInt(10)]
\* no price change, no volume given (the default volume 100 applies)
ChangeFlat ==
    [product_name |-> "Product F", current_price |-> RInt(80),
     new_price |-> RInt(80), price_change_percent |-> RInt(0)]
\* malformed records: a negative current price, a missing product name
ChangeNegativePrice ==
    [product_name |-> "Product N", current_price |-> RInt(-5),
     new_price |-> RInt(10), price_change_percent |-> RInt(-300),
     current_monthly_volume |-> RInt(100)]
ChangeNoName ==
    [current_price |-> RInt(100), new_price |-> RInt(110),
     price_change_percent |-> RInt(10),
     current_monthly_volume |-> RInt(1000)]

Changes ==
    {ChangeA, ChangeB, ChangeZeroVolume, ChangeSteep, ChangeFlat,
     ChangeNegativePrice, ChangeNoName}

MaxChanges == 2

RECURSIVE SeqsUpTo(_, _)
SeqsUpTo(S, n) ==
    IF n = 0 THEN {<<>>}
    ELSE LET shorter == SeqsUpTo(S, n - 1)
         IN  shorter \cup {Append(q, x) : q \in shorter, x \in S}

ChangeLists == SeqsUpTo(Changes, MaxChanges)

Market(elasticity, seasonal, response) ==
    [price_elasticity |-> elasticity, seasonal_factor |-> seasonal,
     competitive_response |-> response]

ResponseLevels ==
    {"none", "low", "moderate", "high", "aggressive", "fierce", "HIGH"}

MarketInputs ==
    {NoneVal}
    \cup {Market(Rat(-12, 10), ROne, r) : r \in ResponseLevels}
    \cup {Market(Rat(-5, 10), Rat(11, 10), "moderate"),
          Market(Rat(-2, 1), Rat(9, 10), "low")}
    \cup {[price_elasticity |-> Rat(-12, 10)],
          [price_elasticity |-> Rat(-12, 10), seasonal_factor |-> Rat(11, 10)],
          [seasonal_factor |-> ROne, competitive_response |-> "moderate"]}

Pending == [outcome |-> "pending"]

----------------------------------------------------------------------------
(* simulate_demand_impact called on its own: a pure function of its       *)
(* arguments, applied once to the arguments Init draws.                   *)

InitDemand ==
    /\ simulation_history = <<>>
    /\ clock = 0
    /\ threads = <<>>
    /\ np_random = FreshGenerator
    /\ \E pricing_changes \in ChangeLists, market_conditions \in MarketInputs :
          call = [op |-> "simulate_demand_impact",
                  args |-> [pricing_changes |-> pricing_changes,
                            market_conditions |-> market_conditions],
                  result |-> Pending]

SimulateDemandImpact ==
    /\ call.op = "simulate_demand_impact"
    /\ call.result = Pending
    /\ call' = [call EXCEPT !.result =
                   simulate_demand_impact(call.args.pricing_changes,
                                          call.args.market_conditions, clock)]
    /\ clock' = clock + 1
    /\ UNCHANGED <<simulation_history, threads, np_random>>

NextDemand == SimulateDemandImpact

SpecDemand == InitDemand /\ [][NextDemand]_vars

----------------------------------------------------------------------------
(* One agent, called by one caller: reports and history summaries *)

\* the segments and competitors of the example run (lines 669-679)
ExampleSegments ==
    <<[name |-> "Premium", price_sensitivity |-> "low",
       size_percent |-> RInt(30)],
      [name |-> "Standard", price_sensitivity |-> "medium",
       size_percent |-> RInt(50)],
      [name |-> "Budget", price_sensitivity |-> "high",
       size_percent |-> RInt(20)]>>
ExampleCompetitors ==
    <<[name |-> "Competitor A", aggressiveness |-> "high",
       market_share_percent |-> RInt(25), response_speed_days |-> 14],
      [name |-> "Competitor B", aggressiveness |-> "medium",
       market_share_percent |-> RInt(20), response_speed_days |-> 30]>>

ReportRequests ==
    {[pricing_changes |-> <<ChangeA, ChangeB>>, market_conditions |-> NoneVal,
      customer_segments |-> ExampleSegments,
      competitor_profiles |-> ExampleCompetitors],
     [pricing_changes |-> <<ChangeSteep>>, market_conditions |-> NoneVal,
      customer_segments |-> ExampleSegments,
      competitor_profiles |-> ExampleCompetitors],
     [pricing_changes |-> <<ChangeSteep>>,
      market_conditions |-> Market(Rat(-12, 10), ROne, "high")],
     [pricing_changes |-> <<ChangeFlat>>, market_conditions |-> NoneVal,
      customer_segments |-> <<>>],
     [pricing_changes |-> <<>>, market_conditions |-> NoneVal],
     [pricing_changes |-> <<ChangeA, ChangeZeroVolume>>,
      market_conditions |-> NoneVal],
     [pricing_changes |-> <<ChangeNegativePrice>>,
      market_conditions |-> NoneVal],
     [pricing_changes |-> <<ChangeNoName, ChangeA>>,
      market_conditions |-> NoneVal]}

Draw(runs, z_elasticity, z_seasonal, u_competitive) ==
    [runs |-> runs, z_elasticity |-> z_elasticity, z_seasonal |-> z_seasonal,
     u_competitive |-> u_competitive]

\* samples of DefaultNumSimulations runs
ReportSamples ==
    {<<Draw(1000, RZero, RZero, Rat(1, 2))>>,
     <<Draw(800, RInt(2), RZero, RZero), Draw(200, RZero, RZero, RZero)>>,
     <<Draw(500, RInt(2), ROne, RZero), Draw(500, RInt(-1), RZero, Rat(1, 2))>>}

Narratives == {Returned("analysis"), Raised("ServiceUnavailable")}

MaxCalls == 2

Init ==
    /\ simulation_history = <<>>
    /\ clock = 0
    /\ threads = <<>>
    /\ np_random = FreshGenerator
    /\ call = [op |-> "__init__", args |-> EmptyDict,
               result |-> Returned(NoneVal)]

GenerateComprehensiveImpactReport ==
    /\ clock < MaxCalls
    /\ \E args \in ReportRequests, sample \in ReportSamples,
          narrative \in Narratives :
          \E done \in {generate_comprehensive_impact_report(
                            simulation_history, args, sample, narrative,
                            clock)} :
              /\ call' = [op |-> "generate_comprehensive_impact_report",
                          args |-> args, result |-> done.result]
              /\ simulation_history' = done.simulation_history
              /\ np_random' = [np_random EXCEPT
                                  !.position = @ + done.runs_drawn]
    /\ clock' = clock + 1
    /\ UNCHANGED threads

GetSimulationHistorySummary ==
    /\ call' = [op |-> "get_simulation_history_summary", args |-> EmptyDict,
                result |->
                    Returned(get_simulation_history_summary(simulation_history))]
    /\ UNCHANGED <<simulation_history, clock, threads, np_random>>

Next == GenerateComprehensiveImpactReport \/ GetSimulationHistorySummary

Spec == Init /\ [][Next]_vars

----------------------------------------------------------------------------
(* _assess_overall_risk_level applied to the three results Init draws *)

ProbabilityOfLossInputs ==
    {RZero, Rat(1, 10), Rat(101, 1000), Rat(2, 10), Rat(3, 10),
     Rat(301, 1000), Rat(5, 10), ROne}

MonteCarloInputs ==
    {[risk_metrics |-> [probability_of_loss |-> p]] :
        p \in ProbabilityOfLossInputs}

SegmentImpactInputs ==
    {NoneVal, EmptyDict,
     [overall_risk_assessment |-> [overall_risk_level |-> "high"]],
     [overall_risk_assessment |-> [overall_risk_level |-> "medium"]],
     [overall_risk_assessment |-> EmptyDict],
     [segment_impacts |-> <<>>]}

CompetitiveImpactInputs ==
    {NoneVal, EmptyDict,
     [summary |-> [competitive_risk_level |-> "high"]],
     [summary |-> [competitive_risk_level |-> "medium"]],
     [summary |-> EmptyDict],
     [competitive_scenarios |-> <<>>]}

InitRisk ==
    /\ simulation_history = <<>>
    /\ clock = 0
    /\ threads = <<>>
    /\ np_random = FreshGenerator
    /\ \E monte_carlo \in MonteCarloInputs,
          segment_impact \in SegmentImpactInputs,
          competitive_impact \in CompetitiveImpactInputs :
          call = [op |-> "_assess_overall_risk_level",
                  args |-> [monte_carlo |-> monte_carlo,
                            segment_impact |-> segment_impact,
                            competitive_impact |-> competitive_impact],
                  result |-> Pending]

AssessOverallRiskLevel ==
    /\ call.op = "_assess_overall_risk_level"
    /\ call.result = Pending
    /\ call' = [call EXCEPT !.result =
                   Returned(_assess_overall_risk_level(call.args.monte_carlo,
                                call.args.segment_impact,
                                call.args.competitive_impact))]
    /\ UNCHANGED <<simulation_history, clock, threads, np_random>>

NextRisk == AssessOverallRiskLevel

SpecRisk == InitRisk /\ [][NextRisk]_vars

----------------------------------------------------------------------------
(* Properties of simulate_demand_impact (checked under SpecDemand) *)

DemandReturned ==
    call.op = "simulate_demand_impact" /\ call.result.outcome = "returned"
DemandEnded ==
    call.op = "simulate_demand_impact" /\ call.result # Pending

\* the market conditions in force, with the documented defaults
StatedMarket(market_conditions) ==
    IF IsNone(market_conditions)
    THEN [elasticity |-> Rat(-12, 10), seasonal |-> ROne,
          response |-> "moderate"]
    ELSE [elasticity |-> market_conditions.price_elasticity,
          seasonal |-> Get(market_conditions, "seasonal_factor", ROne),
          response |-> Get(market_conditions, "competitive_response",
                           "moderate")]

\* the adjustment table as the specification states it
StatedAdjustment(response) ==
    LET level == Lower(response)
    IN  IF level = "none" THEN RZero
        ELSE IF level = "low" THEN Rat(-2, 100)
        ELSE IF level = "high" THEN Rat(-10, 100)
        ELSE IF level = "aggressive" THEN Rat(-15, 100)
        ELSE Rat(-5, 100)

StatedDemandChange(change, market) ==
    RAdd(RAdd(RMul(RDiv(change.price_change_percent, RHundred),
                   market.elasticity),
              RSub(market.seasonal, ROne)),
         StatedAdjustment(market.response))

\* C1: every simulation entry reports total demand change =
\* (price_change_percent/100) x elasticity + (seasonal_factor - 1) +
\* competitive adjustment (0, -0.02, -0.05, -0.10, -0.15, and -0.05 for an
\* unrecognized level), projected volume = volume x (1 + demand change),
\* current revenue = current price x volume and projected revenue = new
\* price x projected volume (each rounded as reported); with a price change
\* of 0 the demand change is seasonal + competitive adjustment; and the
\* change 100 -> 110 at volume 1000 under default conditions gives -17%,
\* 830, 100,000 -> 91,300, -8,700, -8.7%.
C1_DemandFormula ==
    DemandReturned =>
      /\ Len(call.result.value.simulations) = Len(call.args.pricing_changes)
      /\ \A i \in 1..Len(call.args.pricing_changes) :
           LET change == call.args.pricing_changes[i]
               sim == call.result.value.simulations[i]
               market == StatedMarket(call.args.market_conditions)
               demand == StatedDemandChange(change, market)
               volume == Get(change, "current_monthly_volume", RHundred)
               projected == RMul(volume, RAdd(ROne, demand))
           IN  /\ sim.demand_change_percent = Round(RMul(demand, RHundred), 2)
               /\ sim.projected_volume = Round(projected, 0)
               /\ sim.current_revenue =
                      Round(RMul(change.current_price, volume), 2)
               /\ sim.projected_revenue =
                      Round(RMul(change.new_price, projected), 2)
               /\ RIsZero(change.price_change_percent) =>
                      sim.demand_change_percent =
                          Round(RMul(RAdd(RSub(market.seasonal, ROne),
                                          StatedAdjustment(market.response)),
                                     RHundred), 2)
               /\ (change = ChangeA /\ IsNone(call.args.market_conditions)) =>
                      /\ sim.demand_change_percent = RInt(-17)
                      /\ sim.projected_volume = RInt(830)
                      /\ sim.current_revenue = RInt(100000)
                      /\ sim.projected_revenue = RInt(91300)
                      /\ sim.revenue_change = RInt(-8700)
                      /\ sim.revenue_change_percent = Rat(-87, 10)

\* the example change was simulated under an unrecognized response level
C1_Witness ==
    /\ DemandReturned
    /\ call.args.pricing_changes = <<ChangeA, ChangeFlat>>
    /\ call.args.market_conditions = Market(Rat(-12, 10), ROne, "fierce")
    /\ call.result.value.simulations[1].demand_change_percent = RInt(-17)
    /\ call.result.value.simulations[2].demand_change_percent = RInt(-5)

HasKeys(change) ==
    {"product_name", "current_price", "new_price", "price_change_percent"}
        \subseteq DOMAIN change
ZeroRevenue(change) ==
    RIsZero(RMul(change.current_price,
                 Get(change, "current_monthly_volume", RHundred)))
UsableMarket(market_conditions) ==
    IsNone(market_conditions) \/ "price_elasticity" \in DOMAIN market_conditions

\* C3: a change with zero current revenue does not make the call raise: all
\* products get a result, the zero-revenue product's revenue_change_percent
\* is an explicit undefined sentinel, the other results are unaffected.
C3_ZeroRevenueSignalled ==
    ( /\ DemandEnded
      /\ UsableMarket(call.args.market_conditions)
      /\ \A i \in 1..Len(call.args.pricing_changes) :
             HasKeys(call.args.pricing_changes[i])
      /\ \E i \in 1..Len(call.args.pricing_changes) :
             ZeroRevenue(call.args.pricing_changes[i]) )
    => /\ call.result.outcome = "returned"
       /\ Len(call.result.value.simulations) = Len(call.args.pricing_changes)
       /\ \A i \in 1..Len(call.args.pricing_changes) :
            IF ZeroRevenue(call.args.pricing_changes[i])
            THEN call.result.value.simulations[i].revenue_change_percent
                     = NoneVal
            ELSE Returned(call.result.value.simulations[i])
                     = SimulateChange(call.args.pricing_changes[i],
                           IF IsNone(call.args.market_conditions)
                           THEN DefaultMarketConditions
                           ELSE call.args.market_conditions)

\* C4: an empty list of pricing changes returns normally, with no
\* simulations and an aggregate of zeros.
C4_EmptyListReturnsZeros ==
    (DemandEnded /\ call.args.pricing_changes = <<>>)
    => /\ call.result.outcome = "returned"
       /\ call.result.value.simulations = <<>>
       /\ call.result.value.aggregate_impact.total_revenue_change = RZero
       /\ call.result.value.aggregate_impact.total_revenue_change_percent
              = RZero
       /\ call.result.value.aggregate_impact.total_volume_change = RZero
       /\ call.result.value.aggregate_impact.products_with_positive_impact = 0
       /\ call.result.value.aggregate_impact.products_with_negative_impact = 0

\* fields a result would use to mark the negative-volume edge case
VolumeFlagFields ==
    {"warning", "warnings", "negative_volume", "volume_clamped", "edge_case",
     "flags"}

\* C9: when the total demand change is below -1, the result of that product
\* carries a warning field or reports a volume clamped at zero; a negative
\* projected volume is never reported without a flag.
C9_NegativeVolumeFlagged ==
    DemandReturned =>
      \A i \in 1..Len(call.args.pricing_changes) :
        LET sim == call.result.value.simulations[i]
            demand == StatedDemandChange(call.args.pricing_changes[i],
                          StatedMarket(call.args.market_conditions))
        IN  RLt(demand, RInt(-1)) =>
              \/ DOMAIN sim \cap VolumeFlagFields # {}
              \/ ~RLt(sim.projected_volume, RZero)

\* C10: the price-change-percent a simulator uses for a change equals
\* (new price - current price) / current price x 100 of that change.
C10_PercentDerivedFromPrices ==
    DemandReturned =>
      \A i \in 1..Len(call.args.pricing_changes) :
        LET change == call.args.pricing_changes[i]
        IN  call.result.value.simulations[i].price_change_percent =
              RMul(RDiv(RSub(change.new_price, change.current_price),
                        change.current_price), RHundred)

----------------------------------------------------------------------------
(* Properties of _assess_overall_risk_level (checked under SpecRisk) *)

RiskReturned ==
    call.op = "_assess_overall_risk_level" /\ call.result.outcome = "returned"

\* the contributors as the specification states them
StatedSegmentHigh(segment_impact) ==
    /\ ~IsNone(segment_impact)
    /\ "overall_risk_assessment" \in DOMAIN segment_impact
    /\ "overall_risk_level" \in DOMAIN segment_impact.overall_risk_assessment
    /\ segment_impact.overall_risk_assessment.overall_risk_level = "high"
StatedCompetitiveHigh(competitive_impact) ==
    /\ ~IsNone(competitive_impact)
    /\ "summary" \in DOMAIN competitive_impact
    /\ "competitive_risk_level" \in DOMAIN competitive_impact.summary
    /\ competitive_impact.summary.competitive_risk_level = "high"
StatedHighContributors(args) ==
    (IF RGt(args.monte_carlo.risk_metrics.probability_of_loss, Rat(3, 10))
     THEN 1 ELSE 0)
    + (IF StatedSegmentHigh(args.segment_impact) THEN 1 ELSE 0)
    + (IF StatedCompetitiveHigh(args.competitive_impact) THEN 1 ELSE 0)
StatedMediumContributors(args) ==
    IF /\ RGt(args.monte_carlo.risk_metrics.probability_of_loss, Rat(1, 10))
       /\ RLe(args.monte_carlo.risk_metrics.probability_of_loss, Rat(3, 10))
    THEN 1 ELSE 0

\* C2: the overall risk level is 'high' when at least 2 high contributors
\* (probability_of_loss > 0.3, segment risk 'high', competitive risk 'high')
\* are triggered, 'medium' when exactly 1 high contributor or at least 2
\* contributors in total (counting the medium one, 0.1 < probability_of_loss
\* <= 0.3) are triggered, and 'low' otherwise, for every combination of the
\* inputs, absent results included.
C2_RiskLevelFromContributors ==
    RiskReturned =>
      LET high == StatedHighContributors(call.args)
          total == high + StatedMediumContributors(call.args)
      IN  call.result.value =
            IF high >= 2 THEN "high"
            ELSE IF high = 1 \/ total >= 2 THEN "medium"
            ELSE "low"

\* a probability of loss of exactly 0.3 with a high segment risk and no
\* competitive result was assessed as medium
C2_Witness ==
    /\ RiskReturned
    /\ call.args.monte_carlo.risk_metrics.probability_of_loss = Rat(3, 10)
    /\ StatedSegmentHigh(call.args.segment_impact)
    /\ IsNone(call.args.competitive_impact)
    /\ call.result.value = "medium"

----------------------------------------------------------------------------
(* Properties of the report call and the history *)

ReportCalled == call.op = "generate_comprehensive_impact_report"
ReportProduced ==
    /\ ReportCalled
    /\ call.result.outcome = "returned"
    /\ IsReport(call.result.value)
SummaryCalled == call.op = "get_simulation_history_summary"

\* C5: generate_comprehensive_impact_report never propagates an exception
\* to its caller: whatever fails in the demand, segment, competitive or
\* Monte Carlo simulation, in the risk assessment or in the narrative, the
\* call returns, with a report or with a structured error value.
C5_NoExceptionPropagates ==
    ReportCalled =>
      /\ call.result.outcome = "returned"
      /\ IsReport(call.result.value) \/ "error" \in DOMAIN call.result.value

\* a pricing change with a price that is not positive, or without a
\* product identifier
Malformed(change) ==
    \/ "product_name" \notin DOMAIN change
    \/ "current_price" \in DOMAIN change /\ RLe(change.current_price, RZero)
    \/ "new_price" \in DOMAIN change /\ RLe(change.new_price, RZero)

\* C6: a request that contains a malformed pricing change is rejected
\* before any simulator runs: the call ends with an error, it produces no
\* report, and the history holds no entry generated by that call.
C6_MalformedRequestRejected ==
    (/\ ReportCalled
     /\ \E i \in 1..Len(call.args.pricing_changes) :
            Malformed(call.args.pricing_changes[i]))
    =>
      /\ ~ReportProduced
      /\ \A i \in 1..Len(simulation_history) :
            simulation_history[i].generated_at # clock - 1

\* one step of the agent leaves the history as it was, or, when the call
\* returned a report, with that report appended at the end
HistoryStep ==
    /\ call'.op = "generate_comprehensive_impact_report" =>
          simulation_history' =
              IF /\ call'.result.outcome = "returned"
                 /\ IsReport(call'.result.value)
              THEN Append(simulation_history, call'.result.value)
              ELSE simulation_history
    /\ call'.op = "get_simulation_history_summary" =>
          simulation_history' = simulation_history

\* what a summary states about the history it was taken of
SummaryCounts(summary, history) ==
    /\ "total_simulations" \in DOMAIN summary
    /\ summary.total_simulations = Len(history)
    /\ history # <<>> =>
          summary.latest_simulation_date = history[Len(history)].generated_at
    /\ summary.risk_level_distribution.high
         + summary.risk_level_distribution.medium
         + summary.risk_level_distribution.low = summary.total_simulations

\* C7 as stated: the history is append-only, one entry per call that
\* returned a report, in call order, and after any sequence of calls the
\* summary reports total_simulations equal to the number of entries, the
\* latest date of the last entry, and a distribution that sums to the total.
C7_SummaryAfterAnyCalls ==
    [][/\ HistoryStep
       /\ call'.op = "get_simulation_history_summary" =>
             SummaryCounts(call'.result.value, simulation_history)]_vars

\* C7, amended: the history is append-only, one entry per call that returned
\* a report, in call order; once the history holds an entry the summary
\* reports total_simulations equal to the number of entries, the latest
\* date of the last entry and a distribution that sums to the total; while
\* the history is empty the summary is the message alone.
C7_AppendOnlyHistory ==
    [][/\ HistoryStep
       /\ call'.op = "get_simulation_history_summary" =>
             IF simulation_history = <<>>
             THEN call'.result.value =
                      [message |-> "No simulation history available"]
             ELSE SummaryCounts(call'.result.value, simulation_history)]_vars

\* a summary was taken of a history of two reports generated at different
\* times, after a call that ended in an error
C7_Witness ==
    /\ SummaryCalled
    /\ Len(simulation_history) >= 2
    /\ simulation_history[1].generated_at
         < simulation_history[Len(simulation_history)].generated_at
    /\ call.result.value.total_simulations = Len(simulation_history)

----------------------------------------------------------------------------
(* Several callers on one agent.  The agent holds no lock: a thread can be  *)
(* switched out between any two reads or writes of self.simulation_history. *)
(* list.append, len and one pass over the list are single steps.            *)

NumThreads == 3

ConcRequests ==
    {[pricing_changes |-> <<ChangeA, ChangeB>>, market_conditions |-> NoneVal,
      customer_segments |-> ExampleSegments,
      competitor_profiles |-> ExampleCompetitors],
     [pricing_changes |-> <<ChangeSteep>>,
      market_conditions |-> Market(Rat(-12, 10), ROne, "high")]}

ConcSamples == {<<Draw(1000, RZero, RZero, Rat(1, 2))>>}

ThreadIdle == [pc |-> "idle", op |-> "none", local |-> EmptyDict]

ThreadDone(op, result) ==
    [pc |-> "done", op |-> op, local |-> [result |-> result]]

SummaryThread(pc, summary) ==
    [pc |-> pc, op |-> "get_simulation_history_summary",
     local |-> [summary |-> summary]]

InitConc ==
    /\ simulation_history = <<>>
    /\ clock = 0
    /\ call = [op |-> "__init__", args |-> EmptyDict,
               result |-> Returned(NoneVal)]
    /\ threads = [t \in 1..NumThreads |-> ThreadIdle]
    /\ np_random = FreshGenerator

\* lines 448-551: the simulations and the report, all local to the call
StartReport(t) ==
    /\ threads[t].pc = "idle"
    /\ \E args \in ConcRequests, sample \in ConcSamples,
          narrative \in Narratives :
          \E done \in {generate_comprehensive_impact_report(
                            <<>>, args, sample, narrative, clock)} :
              /\ threads' = [threads EXCEPT ![t] =
                    IF done.simulation_history # <<>>
                    THEN [pc |-> "append",
                          op |-> "generate_comprehensive_impact_report",
                          local |-> [comprehensive_report |->
                                         done.simulation_history[1]]]
                    ELSE ThreadDone("generate_comprehensive_impact_report",
                                    done.result)]
              /\ np_random' = [np_random EXCEPT
                                  !.position = @ + done.runs_drawn]
    /\ clock' = clock + 1
    /\ UNCHANGED <<simulation_history, call>>

\* lines 554-556: self.simulation_history.append(...) and the return
AppendReport(t) ==
    /\ threads[t].pc = "append"
    /\ simulation_history' =
          Append(simulation_history, threads[t].local.comprehensive_report)
    /\ threads' = [threads EXCEPT ![t] =
          ThreadDone("generate_comprehensive_impact_report",
                     Returned(threads[t].local.comprehensive_report))]
    /\ UNCHANGED <<clock, call, np_random>>

\* line 616: if not self.simulation_history
SummaryTest(t) ==
    /\ threads[t].pc = "idle"
    /\ threads' = [threads EXCEPT ![t] =
          IF simulation_history = <<>>
          THEN ThreadDone("get_simulation_history_summary",
                   Returned([message |-> "No simulation history available"]))
          ELSE SummaryThread("total_simulations", EmptyDict)]
    /\ UNCHANGED <<simulation_history, clock, call, np_random>>

\* line 620: len(self.simulation_history)
SummaryTotal(t) ==
    /\ threads[t].pc = "total_simulations"
    /\ threads' = [threads EXCEPT ![t] =
          SummaryThread("latest_simulation_date",
              [total_simulations |-> Len(simulation_history)])]
    /\ UNCHANGED <<simulation_history, clock, call, np_random>>

\* line 621: self.simulation_history[-1]['generated_at']
SummaryLatest(t) ==
    /\ threads[t].pc = "latest_simulation_date"
    /\ threads' = [threads EXCEPT ![t] =
          SummaryThread("average_success_probability",
              [total_simulations |->
                   threads[t].local.summary.total_simulations,
               latest_simulation_date |->
                   simulation_history[Len(simulation_history)].generated_at])]
    /\ UNCHANGED <<simulation_history, clock, call, np_random>>

\* lines 622-625: the mean over one pass of the list
SummaryAverage(t) ==
    /\ threads[t].pc = "average_success_probability"
    /\ threads' = [threads EXCEPT ![t] =
          SummaryThread("high",
              [total_simulations |->
                   threads[t].local.summary.total_simulations,
               latest_simulation_date |->
                   threads[t].local.summary.latest_simulation_date,
               average_success_probability |->
                   RDiv(RSum(SuccessProbabilities(simulation_history)),
                        RInt(Len(simulation_history))),
               risk_level_distribution |-> EmptyDict])]
    /\ UNCHANGED <<simulation_history, clock, call, np_random>>

\* lines 627-629: one pass of the list for each of the three levels
WithCount(summary, level, history) ==
    [summary EXCEPT !.risk_level_distribution =
        [k \in DOMAIN summary.risk_level_distribution \cup {level} |->
            IF k = level THEN CountRiskLevel(history, level)
            ELSE summary.risk_level_distribution[k]]]

SummaryHigh(t) ==
    /\ threads[t].pc = "high"
    /\ threads' = [threads EXCEPT ![t] =
          SummaryThread("medium",
              WithCount(threads[t].local.summary, "high",
                        simulation_history))]
    /\ UNCHANGED <<simulation_history, clock, call, np_random>>

SummaryMedium(t) ==
    /\ threads[t].pc = "medium"
    /\ threads' = [threads EXCEPT ![t] =
          SummaryThread("low",
              WithCount(threads[t].local.summary, "medium",
                        simulation_history))]
    /\ UNCHANGED <<simulation_history, clock, call, np_random>>

\* the last count completes the dict; the method returns it
SummaryLow(t) ==
    /\ threads[t].pc = "low"
    /\ threads' = [threads EXCEPT ![t] =
          ThreadDone("get_simulation_history_summary",
              Returned(WithCount(threads[t].local.summary, "low",
                                 simulation_history)))]
    /\ UNCHANGED <<simulation_history, clock, call, np_random>>

NextConc ==
    \E t \in 1..NumThreads :
        \/ StartReport(t)
        \/ AppendReport(t)
        \/ SummaryTest(t)
        \/ SummaryTotal(t)
        \/ SummaryLatest(t)
        \/ SummaryAverage(t)
        \/ SummaryHigh(t)
        \/ SummaryMedium(t)
        \/ SummaryLow(t)

SpecConc == InitConc /\ [][NextConc]_vars

ThreadReturned(t, op) ==
    /\ threads[t].pc = "done"
    /\ threads[t].op = op
    /\ threads[t].local.result.outcome = "returned"

Prefixes(history) == {SubSeq(history, 1, n) : n \in 0..Len(history)}

\* C8: under every interleaving of concurrent calls on one agent, each call
\* that returned a report has that report in the history exactly once, and
\* each summary a concurrent get_simulation_history_summary returned is the
\* summary of the history as it was at one moment, a prefix of the history.
C8_SerializedHistory ==
    \A t \in DOMAIN threads :
        /\ (/\ ThreadReturned(t, "generate_comprehensive_impact_report")
            /\ IsReport(threads[t].local.result.value))
           => Cardinality({i \in 1..Len(simulation_history) :
                  simulation_history[i] = threads[t].local.result.value}) = 1
        /\ ThreadReturned(t, "get_simulation_history_summary")
           => \E history \in Prefixes(simulation_history) :
                  threads[t].local.result.value =
                      get_simulation_history_summary(history)

----------------------------------------------------------------------------
(* Defaults for missing market data *)

\* the market conditions in force when every missing field takes its
\* documented default
DefaultedMarket(market_conditions) ==
    IF IsNone(market_conditions)
    THEN [elasticity |-> Rat(-12, 10), seasonal |-> ROne,
          response |-> "moderate"]
    ELSE [elasticity |-> Get(market_conditions, "price_elasticity",
                             Rat(-12, 10)),
          seasonal |-> Get(market_conditions, "seasonal_factor", ROne),
          response |-> Get(market_conditions, "competitive_response",
                           "moderate")]

\* C11: missing optional market data is never an error in
\* simulate_demand_impact: with well-formed pricing changes of non-zero
\* revenue, whether market_conditions is absent or lacks price elasticity,
\* seasonal factor or competitive response, the call returns and each entry
\* uses the default of each missing field (-1.2, 1.0, 'moderate').
C11_MissingMarketDataDefaults ==
    ( /\ DemandEnded
      /\ call.args.pricing_changes # <<>>
      /\ \A i \in 1..Len(call.args.pricing_changes) :
             /\ HasKeys(call.args.pricing_changes[i])
             /\ ~ZeroRevenue(call.args.pricing_changes[i]) )
    => /\ call.result.outcome = "returned"
       /\ \A i \in 1..Len(call.args.pricing_changes) :
            call.result.value.simulations[i].demand_change_percent =
                Round(RMul(StatedDemandChange(call.args.pricing_changes[i],
                               DefaultedMarket(call.args.market_conditions)),
                           RHundred), 2)

----------------------------------------------------------------------------
(* run_monte_carlo_simulation called on its own, in a process where the    *)
(* generator behind np.random is seeded and drawn from by other code too.   *)
(* The method takes no seed and no generator (lines 364-366): its draws     *)
(* (lines 382-395) come from np.random, so what a run obtains is fixed by   *)
(* the seed in force and by how much has been drawn since.                  *)

Seeds == {0, 1}

\* the draws of the generator after np.random.seed(seed), one entry for
\* each run's three draws, repeated with this period
StreamPeriod(seed) ==
    IF seed = 0
    THEN <<Draw(1, RInt(-1), RZero, Rat(1, 2)),
           Draw(1, RInt(2), ROne, RZero),
           Draw(1, RZero, RZero, Rat(1, 4)),
           Draw(1, RInt(1), RInt(-1), Rat(3, 4)),
           Draw(1, RInt(-2), RZero, RZero),
           Draw(1, RInt(2), RInt(2), Rat(1, 2)),
           Draw(1, RZero, ROne, Rat(1, 4))>>
    ELSE <<Draw(1, RInt(2), RZero, Rat(1, 4)),
           Draw(1, RInt(-2), ROne, Rat(1, 2)),
           Draw(1, ROne, RZero, RZero),
           Draw(1, RZero, RInt(-1), Rat(3, 4)),
           Draw(1, RInt(-1), ROne, Rat(1, 2)),
           Draw(1, RInt(2), RInt(-2), RZero),
           Draw(1, RInt(-1), RZero, Rat(1, 4))>>

DrawAt(seed, position) ==
    StreamPeriod(seed)[(position % Len(StreamPeriod(seed))) + 1]

\* what num_simulations runs obtain from the generator
SampleAt(generator, num_simulations) ==
    [i \in 1..num_simulations |->
        DrawAt(generator.seed, generator.position + i - 1)]

MaxRuns == 3
MaxPosition == 2

MonteCarloRequests ==
    [pricing_changes : {<<ChangeA, ChangeB>>, <<ChangeSteep>>, <<>>,
                        <<ChangeZeroVolume>>},
     uncertainty_ranges : {EmptyDict},
     num_simulations : 1..MaxRuns]

InitMonteCarlo ==
    /\ simulation_history = <<>>
    /\ clock = 0
    /\ threads = <<>>
    /\ np_random = FreshGenerator
    /\ call = [op |-> "__init__", args |-> EmptyDict,
               result |-> Returned(NoneVal)]

\* np.random.seed(seed), by a caller or a test
SeedGenerator ==
    /\ \E seed \in Seeds : np_random' = [seed |-> seed, position |-> 0]
    /\ UNCHANGED <<simulation_history, clock, call, threads>>

\* a draw from np.random by other code of the process
DrawElsewhere ==
    /\ np_random.position < MaxPosition
    /\ np_random' = [np_random EXCEPT !.position = @ + 1]
    /\ UNCHANGED <<simulation_history, clock, call, threads>>

RunMonteCarloSimulation ==
    /\ clock < MaxCalls
    /\ \E args \in MonteCarloRequests :
          /\ call' = [op |-> "run_monte_carlo_simulation", args |-> args,
                      generator |-> np_random,
                      result |->
                          run_monte_carlo_simulation(args.pricing_changes,
                              args.uncertainty_ranges, args.num_simulations,
                              SampleAt(np_random, args.num_simulations),
                              clock)]
          /\ np_random' = [np_random EXCEPT
                              !.position = @ + args.num_simulations]
    /\ clock' = clock + 1
    /\ UNCHANGED <<simulation_history, threads>>

NextMonteCarlo == SeedGenerator \/ DrawElsewhere \/ RunMonteCarloSimulation

SpecMonteCarlo == InitMonteCarlo /\ [][NextMonteCarlo]_vars

MonteCarloReturned ==
    call.op = "run_monte_carlo_simulation" /\ call.result.outcome = "returned"

\* C12: two runs of run_monte_carlo_simulation with the same pricing
\* changes, uncertainty ranges, run count and seed report the same revenue
\* statistics and risk metrics, whatever was drawn from the generator
\* between or before them.
C12_SeededRunsRepeat ==
    [][(/\ MonteCarloReturned
        /\ clock' = clock + 1
        /\ call'.args = call.args
        /\ call'.generator.seed = call.generator.seed)
       => /\ call'.result.value.revenue_statistics
               = call.result.value.revenue_statistics
          /\ call'.result.value.risk_metrics
               = call.result.value.risk_metrics]_vars


\* number of runs of the last call whose total revenue is below zero
LossRuns ==
    Cardinality({i \in 1..call.args.num_simulations :
        RLt(RunRevenue(call.args.pricing_changes,
                call.args.uncertainty_ranges,
                DrawAt(call.generator.seed,
                    call.generator.position + i - 1)).value, RZero)})

\* C13 as stated: probability_of_loss equals exactly the number of runs
\* with total revenue below zero divided by the run count.
C13_LossProbabilityExact ==
    MonteCarloReturned
    => call.result.value.risk_metrics.probability_of_loss
         = Rat(LossRuns, call.args.num_simulations)

\* C13: for every run count of at least 1, probability_of_loss is the
\* number of runs with total revenue strictly below zero divided by the run
\* count, rounded to three decimals, and lies between 0 and 1; and
\* value_at_risk_5pct is the percentile_5 of the revenue statistics.
C13_LossProbabilityRounded ==
    MonteCarloReturned
    => /\ call.result.value.risk_metrics.probability_of_loss
            = Round(Rat(LossRuns, call.args.num_simulations), 3)
       /\ RGe(call.result.value.risk_metrics.probability_of_loss, RZero)
       /\ RLe(call.result.value.risk_metrics.probability_of_loss, ROne)
       /\ call.result.value.risk_metrics.value_at_risk_5pct
            = call.result.value.revenue_statistics.percentile_5

\* a run of three simulations of which some but not all lose
C13_Witness ==
    /\ MonteCarloReturned
    /\ call.args.num_simulations = 3
    /\ RGt(call.result.value.risk_metrics.probability_of_loss, RZero)
    /\ RLt(call.result.value.risk_metrics.probability_of_loss, ROne)


\* sum of the total revenues of the runs of the last call
SampledRevenueSum ==
    RSum([i \in 1..call.args.num_simulations |->
             RunRevenue(call.args.pricing_changes,
                 call.args.uncertainty_ranges,
                 DrawAt(call.generator.seed,
                     call.generator.position + i - 1)).value])

ZeroMeanRun ==
    call.op = "run_monte_carlo_simulation" /\ RIsZero(SampledRevenueSum)

----------------------------------------------------------------------------
(* simulate_customer_segment_impact called on its own: a pure function of  *)
(* its arguments, applied once to the arguments Init draws.                *)

SegmentChange(product_name, price_change_percent) ==
    [product_name |-> product_name,
     price_change_percent |-> price_change_percent]

\* price changes whose segment demand changes fall on, below and above the
\* thresholds 0.05, 0.15 and 0.25 for the four elasticities
SegmentChanges ==
    {SegmentChange("Product A", RInt(2)),
     SegmentChange("Product B", Rat(-625, 100)),
     SegmentChange("Product C", Rat(125, 10)),
     SegmentChange("Product D", RInt(-10)),
     SegmentChange("Product E", RInt(4))}

Segment(name, price_sensitivity, size_percent) ==
    [name |-> name, price_sensitivity |-> price_sensitivity,
     size_percent |-> size_percent]

\* the segments of the example run (lines 669-673), one more tier, one
\* tier outside the table, and one segment that leaves sensitivity and
\* size to their defaults
Segments ==
    {Segment("Premium", "low", RInt(20)),
     Segment("Standard", "medium", RInt(50)),
     Segment("Budget", "high", RInt(30)),
     Segment("Bargain", "very_high", RInt(10)),
     Segment("Niche", "extreme", RInt(15)),
     [name |-> "Other"]}

MaxSegments == 2

InitSegment ==
    /\ simulation_history = <<>>
    /\ clock = 0
    /\ threads = <<>>
    /\ np_random = FreshGenerator
    /\ \E pricing_changes \in SeqsUpTo(SegmentChanges, MaxChanges),
          customer_segments \in SeqsUpTo(Segments, MaxSegments) :
          call = [op |-> "simulate_customer_segment_impact",
                  args |-> [pricing_changes |-> pricing_changes,
                            customer_segments |-> customer_segments],
                  result |-> Pending]

SimulateCustomerSegmentImpact ==
    /\ call.op = "simulate_customer_segment_impact"
    /\ call.result = Pending
    /\ call' = [call EXCEPT !.result =
                   simulate_customer_segment_impact(call.args.pricing_changes,
                       call.args.customer_segments, clock)]
    /\ UNCHANGED <<simulation_history, clock, threads, np_random>>

NextSegment == SimulateCustomerSegmentImpact

SpecSegment == InitSegment /\ [][NextSegment]_vars

SegmentReturned ==
    /\ call.op = "simulate_customer_segment_impact"
    /\ call.result.outcome = "returned"

\* positions of the segments with a product impact classified high or
\* very_high in the returned analysis
HighRiskPositions ==
    {i \in 1..Len(call.result.value.segment_impacts) :
        \E j \in 1..Len(call.result.value.segment_impacts[i].product_impacts) :
            call.result.value.segment_impacts[i].product_impacts[j].risk_level
                \in {"high", "very_high"}}

\* C15: the high-risk segments are exactly those with at least one product
\* impact classified high or very_high, and the overall segment risk level
\* is "high" exactly when they are strictly more than half of all segments,
\* otherwise "medium"; never "low".
C15_SegmentRollup ==
    SegmentReturned
    => /\ Len(call.result.value.segment_impacts)
            = Len(call.args.customer_segments)
       /\ call.result.value.overall_risk_assessment.high_risk_segment_count
            = Cardinality(HighRiskPositions)
       /\ call.result.value.overall_risk_assessment.high_risk_segments
            = Field(SelectSeq(call.result.value.segment_impacts,
                        LAMBDA s : \E j \in 1..Len(s.product_impacts) :
                            s.product_impacts[j].risk_level
                                \in {"high", "very_high"}),
                    "segment_name")
       /\ call.result.value.overall_risk_assessment.overall_risk_level
            = IF 2 * Cardinality(HighRiskPositions)
                    > Len(call.args.customer_segments)
              THEN "high" ELSE "medium"

\* exactly half of the segments are high-risk: the rollup says medium
C15_Witness ==
    /\ SegmentReturned
    /\ Len(call.args.customer_segments) = 2
    /\ Cardinality(HighRiskPositions) = 1
    /\ call.result.value.overall_risk_assessment.overall_risk_level = "medium"

\* the classification the thresholds 0.05, 0.15 and 0.25 give a magnitude
StatedSegmentRisk(m) ==
    CASE RLt(m, Rat(5, 100)) -> "low"
      [] RGe(m, Rat(5, 100)) /\ RLt(m, Rat(15, 100)) -> "medium"
      [] RGe(m, Rat(15, 100)) /\ RLt(m, Rat(25, 100)) -> "high"
      [] RGe(m, Rat(25, 100)) -> "very_high"

\* magnitude of the demand change of segment i for pricing change j
SegmentMagnitude(i, j) ==
    RAbs(RMul(RDiv(call.args.pricing_changes[j].price_change_percent,
                   RHundred),
              call.result.value.segment_impacts[i].elasticity))

\* C16: every (segment, product) pair is classified by the magnitude m of
\* its segment demand change alone: low for m < 0.05, medium for
\* 0.05 <= m < 0.15, high for 0.15 <= m < 0.25, very_high for m >= 0.25.
C16_SegmentRiskThresholds ==
    SegmentReturned
    => \A i \in 1..Len(call.args.customer_segments) :
          /\ call.result.value.segment_impacts[i].elasticity
               = SegmentElasticity(Get(call.args.customer_segments[i],
                                       "price_sensitivity", "medium"))
          /\ \A j \in 1..Len(call.args.pricing_changes) :
               call.result.value.segment_impacts[i].product_impacts[j].risk_level
                   = StatedSegmentRisk(SegmentMagnitude(i, j))

\* the boundary 0.05 reached from a price rise and from a price cut, in
\* segments of different sensitivity, both classified medium
C16_Witness ==
    /\ SegmentReturned
    /\ \E i, k \in 1..Len(call.args.customer_segments) :
       \E j, l \in 1..Len(call.args.pricing_changes) :
          /\ SegmentMagnitude(i, j) = Rat(5, 100)
          /\ SegmentMagnitude(k, l) = Rat(5, 100)
          /\ RGt(call.args.pricing_changes[j].price_change_percent, RZero)
          /\ RLt(call.args.pricing_changes[l].price_change_percent, RZero)
          /\ call.result.value.segment_impacts[i].price_sensitivity
               # call.result.value.segment_impacts[k].price_sensitivity
          /\ call.result.value.segment_impacts[i].product_impacts[j].risk_level
               = "medium"
          /\ call.result.value.segment_impacts[k].product_impacts[l].risk_level
               = "medium"

----------------------------------------------------------------------------
(* simulate_competitive_response called on its own: a pure function of its *)
(* arguments, applied once to the arguments Init draws.                    *)

\* price changes whose response probabilities fall below 0.3, on 0.3,
\* between, just above 0.7 and at the cap for the competitors below
CompetitiveChanges ==
    {SegmentChange("Product A", RInt(10)),
     SegmentChange("Product B", Rat(-667, 100)),
     SegmentChange("Product C", RInt(11)),
     SegmentChange("Product D", RInt(-20)),
     SegmentChange("Product E", RInt(5))}

\* the first competitor of the example run (line 677), one that leaves
\* everything but its name to the defaults (medium, 20, 30), one for each
\* other aggressiveness and one with an aggressiveness outside the tables
Competitors ==
    {ExampleCompetitors[1],
     [name |-> "Competitor D"],
     [name |-> "Competitor E", aggressiveness |-> "low",
      market_share_percent |-> RInt(0), response_speed_days |-> 60],
     [name |-> "Competitor F", aggressiveness |-> "very_high",
      market_share_percent |-> RInt(100)],
     [name |-> "Competitor G", aggressiveness |-> "reckless",
      market_share_percent |-> RInt(28), response_speed_days |-> 7]}

MaxCompetitors == 2

InitCompetitive ==
    /\ simulation_history = <<>>
    /\ clock = 0
    /\ threads = <<>>
    /\ np_random = FreshGenerator
    /\ \E pricing_changes \in SeqsUpTo(CompetitiveChanges, MaxChanges),
          competitor_profiles \in SeqsUpTo(Competitors, MaxCompetitors) :
          call = [op |-> "simulate_competitive_response",
                  args |-> [pricing_changes |-> pricing_changes,
                            competitor_profiles |-> competitor_profiles],
                  result |-> Pending]

SimulateCompetitiveResponse ==
    /\ call.op = "simulate_competitive_response"
    /\ call.result = Pending
    /\ call' = [call EXCEPT !.result =
                   simulate_competitive_response(call.args.pricing_changes,
                       call.args.competitor_profiles, clock)]
    /\ UNCHANGED <<simulation_history, clock, threads, np_random>>

NextCompetitive == SimulateCompetitiveResponse

SpecCompetitive == InitCompetitive /\ [][NextCompetitive]_vars

CompetitiveReturned ==
    /\ call.op = "simulate_competitive_response"
    /\ call.result.outcome = "returned"

\* the (competitor, pricing change) pairs the simulator goes through
ConsideredPairs ==
    (1..Len(call.args.competitor_profiles))
        \X (1..Len(call.args.pricing_changes))

\* response probability of a pair, as computed, before any rounding
PairProbability(pair) ==
    _calculate_response_probability(
        RAbs(call.args.pricing_changes[pair[2]].price_change_percent),
        Get(call.args.competitor_profiles[pair[1]], "aggressiveness",
            "medium"),
        Get(call.args.competitor_profiles[pair[1]], "market_share_percent",
            RInt(20)))

HighProbabilityPairs ==
    {pair \in ConsideredPairs : RGt(PairProbability(pair), Rat(7, 10))}

\* C17: total_competitive_scenarios is the number of (competitor, pricing
\* change) pairs considered, high_probability_responses the number of those
\* whose unrounded response probability exceeds 0.7, and the competitive
\* risk level is "high" exactly when the latter is strictly more than half
\* of the former, else "medium".
C17_CompetitiveSummary ==
    CompetitiveReturned
    => /\ call.result.value.summary.total_competitive_scenarios
            = Cardinality(ConsideredPairs)
       /\ call.result.value.summary.high_probability_responses
            = Cardinality(HighProbabilityPairs)
       /\ call.result.value.summary.competitive_risk_level
            = IF 2 * Cardinality(HighProbabilityPairs)
                    > Cardinality(ConsideredPairs)
              THEN "high" ELSE "medium"

----------------------------------------------------------------------------
(* The response probability on its own: for one competitor, the loop of    *)
(* lines 262-268 takes the magnitude of each price change and computes its *)
(* probability.                                                            *)

PriceChangePercents ==
    {RInt(0), RInt(3), RInt(-3), RInt(10), RInt(-10), RInt(20), RInt(25),
     RInt(-25)}

AggressivenessLevels == {"low", "medium", "high", "very_high", "unknown"}

MarketShares == {RInt(0), RInt(25), RInt(50), RInt(100)}

InitResponse ==
    /\ simulation_history = <<>>
    /\ clock = 0
    /\ threads = <<>>
    /\ np_random = FreshGenerator
    /\ \E price_change_percents \in SeqsUpTo(PriceChangePercents, MaxChanges),
          aggressiveness \in AggressivenessLevels,
          market_share \in MarketShares :
          call = [op |-> "_calculate_response_probability",
                  args |-> [price_change_percents |-> price_change_percents,
                            aggressiveness |-> aggressiveness,
                            market_share |-> market_share],
                  probabilities |-> <<>>]

\* one pass of the loop: the next price change's probability
CalculateResponseProbability ==
    /\ call.op = "_calculate_response_probability"
    /\ Len(call.probabilities) < Len(call.args.price_change_percents)
    /\ call' = [call EXCEPT !.probabilities =
                   Append(@, _calculate_response_probability(
                       RAbs(call.args.price_change_percents[Len(@) + 1]),
                       call.args.aggressiveness, call.args.market_share))]
    /\ UNCHANGED <<simulation_history, clock, threads, np_random>>

NextResponse == CalculateResponseProbability

SpecResponse == InitResponse /\ [][NextResponse]_vars

\* C18: for a fixed aggressiveness and market share in [0, 100], a price
\* change of no smaller magnitude has no smaller response probability,
\* price changes of +x% and -x% have the same probability, and no
\* probability exceeds 0.95.
C18_ResponseProbabilityMonotone ==
    call.op = "_calculate_response_probability"
    => \A i, j \in 1..Len(call.probabilities) :
          /\ RLe(RAbs(call.args.price_change_percents[i]),
                 RAbs(call.args.price_change_percents[j]))
             => RLe(call.probabilities[i], call.probabilities[j])
          /\ call.args.price_change_percents[i]
                 = RNeg(call.args.price_change_percents[j])
             => call.probabilities[i] = call.probabilities[j]
          /\ RLe(call.probabilities[i], Rat(95, 100))

\* a price rise and a larger price cut: the cut has the larger probability
C18_Witness ==
    /\ call.op = "_calculate_response_probability"
    /\ Len(call.probabilities) = 2
    /\ RGt(call.args.price_change_percents[1], RZero)
    /\ RLt(call.args.price_change_percents[2], RZero)
    /\ RLt(RAbs(call.args.price_change_percents[1]),
           RAbs(call.args.price_change_percents[2]))
    /\ RLt(call.probabilities[1], call.probabilities[2])


\* success_probability of a report against the Monte Carlo result in it
SuccessIsOneMinusLoss(report) ==
    /\ report.key_metrics.success_probability
         = RSub(ROne, report.detailed_analysis.risk_analysis
                          .risk_metrics.probability_of_loss)
    /\ RGe(report.key_metrics.success_probability, RZero)
    /\ RLe(report.key_metrics.success_probability, ROne)

\* C19: in every report returned, and so in every report of the history,
\* key_metrics.success_probability is 1 minus the probability_of_loss of
\* the Monte Carlo result in that report, and lies between 0 and 1.
C19_SuccessProbability ==
    /\ ReportProduced => SuccessIsOneMinusLoss(call.result.value)
    /\ \A i \in 1..Len(simulation_history) :
          SuccessIsOneMinusLoss(simulation_history[i])

\* a report whose runs partly lose
C19_Witness ==
    /\ ReportProduced
    /\ RGt(call.result.value.detailed_analysis.risk_analysis
               .risk_metrics.probability_of_loss, RZero)
    /\ RLt(call.result.value.key_metrics.success_probability, ROne)
    /\ RGt(call.result.value.key_metrics.success_probability, RZero)


\* a sub-result without the time it was generated at
WithoutTimestamp(r) == [k \in DOMAIN r \ {"generated_at"} |-> r[k]]

\* two reports assembled from the same four sub-results; the times the
\* sub-results were generated at differ between any two assemblies
SameSubResults(a, b) ==
    \A k \in {"demand_simulation", "segment_analysis", "competitive_analysis",
              "risk_analysis"} :
        WithoutTimestamp(a.detailed_analysis[k])
            = WithoutTimestamp(b.detailed_analysis[k])

----------------------------------------------------------------------------
(* The agent and a caller that keeps the report it was returned.  Line 554  *)
(* appends comprehensive_report to self.simulation_history and line 556     *)
(* returns that same dict: the caller's report and the last entry of the    *)
(* history are one object, so a write through one shows through the other.  *)

CallerRiskLevels == {"low", "high"}

\* the caller assigns report['key_metrics']['risk_level'] and
\* report['key_metrics']['success_probability'] of the report the last call
\* returned
CallerModifiesReport ==
    /\ ReportProduced
    /\ simulation_history # <<>>
    /\ \E level \in CallerRiskLevels, probability \in {RZero, ROne} :
          \E modified \in {[call.result.value EXCEPT
                               !.key_metrics.risk_level = level,
                               !.key_metrics.success_probability =
                                   probability]} :
              /\ call' = [call EXCEPT !.result.value = modified]
              /\ simulation_history' =
                     [simulation_history EXCEPT
                         ![Len(simulation_history)] = modified]
    /\ UNCHANGED <<clock, threads, np_random>>

CallerGeneratesReport ==
    /\ clock < MaxCalls
    /\ \E args \in ReportRequests, sample \in ReportSamples,
          narrative \in Narratives :
          \E done \in {generate_comprehensive_impact_report(
                            simulation_history, args, sample, narrative,
                            clock)} :
              /\ call' = [op |-> "generate_comprehensive_impact_report",
                          args |-> args, result |-> done.result]
              /\ simulation_history' = done.simulation_history
              /\ np_random' = [np_random EXCEPT
                                  !.position = @ + done.runs_drawn]
    /\ clock' = clock + 1
    /\ UNCHANGED threads

CallerGetsSummary ==
    /\ call' = [op |-> "get_simulation_history_summary", args |-> EmptyDict,
                result |->
                    Returned(get_simulation_history_summary(simulation_history))]
    /\ UNCHANGED <<simulation_history, clock, threads, np_random>>

NextCaller ==
    CallerGeneratesReport \/ CallerGetsSummary \/ CallerModifiesReport

SpecCaller == Init /\ [][NextCaller]_vars

\* C21: a report recorded in the history stays as it was assembled: no step
\* of the agent or of the caller holding the returned report removes or
\* changes an entry, so the summary keeps counting the assembled values.
C21_RecordedReportsImmutable ==
    [][\A i \in 1..Len(simulation_history) :
          /\ i <= Len(simulation_history')
          /\ simulation_history'[i] = simulation_history[i]]_vars


\* C22: the overall risk level follows from the number of high contributors
\* alone: "high" with two or more, "medium" with exactly one, "low" with
\* none; a medium Monte Carlo contributor (0.1 < probability_of_loss <= 0.3)
\* changes nothing.
C22_RiskLevelFromHighCount ==
    RiskReturned
    => call.result.value =
         CASE StatedHighContributors(call.args) >= 2 -> "high"
           [] StatedHighContributors(call.args) = 1 -> "medium"
           [] StatedHighContributors(call.args) = 0 -> "low"

\* a medium Monte Carlo contributor without any high contributor: low
C22_Witness ==
    /\ RiskReturned
    /\ StatedMediumContributors(call.args) = 1
    /\ StatedHighContributors(call.args) = 0
    /\ call.result.value = "low"


\* the last call returned a report requested without customer segments and
\* without competitor profiles, each absent or an empty list
BareReportProduced ==
    /\ ReportProduced
    /\ "customer_segments" \in DOMAIN call.args
          => call.args.customer_segments = <<>>
    /\ "competitor_profiles" \in DOMAIN call.args
          => call.args.competitor_profiles = <<>>

\* C23: a report generated with neither customer segments nor competitor
\* profiles holds None for the segment and the competitive analysis, and its
\* risk level is "medium" when probability_of_loss exceeds 0.3 and "low"
\* otherwise, never "high".
C23_BareReportNeverHigh ==
    BareReportProduced
    => /\ IsNone(call.result.value.detailed_analysis.segment_analysis)
       /\ IsNone(call.result.value.detailed_analysis.competitive_analysis)
       /\ call.result.value.key_metrics.risk_level =
            IF RGt(call.result.value.detailed_analysis.risk_analysis
                       .risk_metrics.probability_of_loss, Rat(3, 10))
            THEN "medium" ELSE "low"

\* every run loses, and the report says medium
C23_Witness ==
    /\ BareReportProduced
    /\ call.result.value.detailed_analysis.risk_analysis
           .risk_metrics.probability_of_loss = ROne
    /\ call.result.value.key_metrics.risk_level = "medium"


\* the response entries of the returned scenarios, each with its competitor
EmittedResponses ==
    UNION {{[competitor |->
                 call.result.value.competitive_scenarios[i].competitor_name,
             response |->
                 call.result.value.competitive_scenarios[i].responses[j]] :
            j \in 1..Len(call.result.value.competitive_scenarios[i].responses)} :
           i \in 1..Len(call.result.value.competitive_scenarios)}

\* our price change percent behind a response entry
OurChangePercent(response) ==
    (CHOOSE change \in CompetitiveChanges :
        change.product_name = response.product_category).price_change_percent

Sign(x) == IF RGt(x, RZero) THEN 1 ELSE IF RLt(x, RZero) THEN -1 ELSE 0

\* C24: in every response entry the competitor's estimated response has the
\* sign of our price change, the response type is follow_increase or
\* follow_decrease, and the impact on our demand is not negative.
C24_ResponsesFollow ==
    CompetitiveReturned
    => \A e \in EmittedResponses :
          /\ Sign(e.response.estimated_response_percent)
               = Sign(OurChangePercent(e.response))
          /\ Sign(OurChangePercent(e.response)) # 0
          /\ e.response.response_type =
               IF RGt(OurChangePercent(e.response), RZero)
               THEN "follow_increase" ELSE "follow_decrease"
          /\ RGe(e.response.impact_on_our_demand, RZero)

\* a price cut answered by a competitor of low aggressiveness and by one
\* with an aggressiveness outside the tables
C24_Witness ==
    /\ CompetitiveReturned
    /\ \E e, f \in EmittedResponses :
          /\ e.competitor = "Competitor E"
          /\ e.response.response_type = "follow_decrease"
          /\ f.competitor = "Competitor G"
          /\ f.response.response_type = "follow_decrease"
          /\ RGt(f.response.impact_on_our_demand, RZero)


\* positions of the pricing changes whose probability for competitor i
\* exceeds 0.3, and of the competitors that have such a change, in order
AnsweredChanges(i) ==
    SelectSeq([j \in 1..Len(call.args.pricing_changes) |-> j],
              LAMBDA j : RGt(PairProbability(<<i, j>>), Rat(3, 10)))

AnsweringCompetitors ==
    SelectSeq([i \in 1..Len(call.args.competitor_profiles) |-> i],
              LAMBDA i : AnsweredChanges(i) # <<>>)

\* the response ratios of the four aggressiveness levels
StatedResponseRatio(aggressiveness) ==
    CASE aggressiveness = "low" -> Rat(3, 10)
      [] aggressiveness = "medium" -> Rat(6, 10)
      [] aggressiveness = "high" -> Rat(9, 10)
      [] aggressiveness = "very_high" -> Rat(12, 10)

KnownAggressiveness(aggressiveness) ==
    aggressiveness \in {"low", "medium", "high", "very_high"}

\* our price change percent times the ratio of the aggressiveness, for the
\* four levels that have one
StatedResponsePercent(change, aggressiveness) ==
    IF KnownAggressiveness(aggressiveness)
    THEN RMul(change.price_change_percent,
              StatedResponseRatio(aggressiveness))
    ELSE RZero

\* the scenarios as stated: one for each answering competitor, in order,
\* with one entry for each answered change, in order
StatedScenarios ==
    LET Scenario(competitor, answered) ==
            [competitor_name |-> competitor.name,
             responses |->
                 [l \in 1..Len(answered) |->
                     [product_category |->
                          call.args.pricing_changes[answered[l]].product_name,
                      percent |->
                          StatedResponsePercent(
                              call.args.pricing_changes[answered[l]],
                              Get(competitor, "aggressiveness", "medium"))]]]
        Scenarios(answering) ==
            [k \in 1..Len(answering) |->
                Scenario(call.args.competitor_profiles[answering[k]],
                         AnsweredChanges(answering[k]))]
    IN  Scenarios(AnsweringCompetitors)

\* the scenarios as returned: competitor, product and, for the four levels,
\* the estimated response percent of each entry
ReturnedScenarios ==
    [k \in 1..Len(call.result.value.competitive_scenarios) |->
        [competitor_name |->
             call.result.value.competitive_scenarios[k].competitor_name,
         responses |->
             [l \in 1..Len(call.result.value.competitive_scenarios[k].responses) |->
                 [product_category |->
                      call.result.value.competitive_scenarios[k].responses[l]
                          .product_category,
                  percent |->
                      IF KnownAggressiveness(
                             call.result.value.competitive_scenarios[k]
                                 .aggressiveness_level)
                      THEN call.result.value.competitive_scenarios[k]
                               .responses[l].estimated_response_percent
                      ELSE RZero]]]]

\* the stated scenarios with each percent rounded to two decimals
RoundedScenarios(scenarios) ==
    [k \in 1..Len(scenarios) |->
        [scenarios[k] EXCEPT !.responses =
            [l \in 1..Len(@) |-> [@[l] EXCEPT !.percent = Round(@, 2)]]]]

\* C25 as stated: an entry exactly for the pairs with a probability above
\* 0.3, a scenario exactly for the competitors with an entry, and each
\* entry's estimated response percent equal to our price change percent
\* times the ratio of the competitor's aggressiveness.
C25_ResponsesExact ==
    CompetitiveReturned => ReturnedScenarios = StatedScenarios

\* C25: an entry exactly for the pairs with a probability strictly above
\* 0.3, a scenario exactly for the competitors with an entry, and each
\* entry's estimated response percent equal to our price change percent
\* times the ratio of the competitor's aggressiveness (low 0.3, medium 0.6,
\* high 0.9, very_high 1.2), rounded to two decimals.
C25_ResponsesRounded ==
    CompetitiveReturned
    => ReturnedScenarios = RoundedScenarios(StatedScenarios)

\* a competitor dropped for a probability of exactly 0.3 next to one that
\* answers the same change
C25_Witness ==
    /\ CompetitiveReturned
    /\ Len(call.args.competitor_profiles) = 2
    /\ Len(call.args.pricing_changes) = 1
    /\ PairProbability(<<1, 1>>) = Rat(3, 10)
    /\ AnsweringCompetitors = <<2>>
    /\ Len(call.result.value.competitive_scenarios) = 1


StatedAggressivenessMultiplier(aggressiveness) ==
    CASE aggressiveness = "low" -> Rat(7, 10)
      [] aggressiveness = "medium" -> ROne
      [] aggressiveness = "high" -> Rat(13, 10)
      [] aggressiveness = "very_high" -> Rat(16, 10)
      [] OTHER -> ROne

\* min( min(|price_change_percent| / 20, 0.8) x aggressiveness multiplier
\*      x (1 + market_share_percent / 100), 0.95 )
StatedResponseProbability(price_change_percent, aggressiveness, market_share) ==
    LET base == IF RLt(RAbs(price_change_percent), RInt(16))
                THEN RDiv(RAbs(price_change_percent), RInt(20))
                ELSE Rat(8, 10)
        product ==
            RMul(base,
                 RMul(StatedAggressivenessMultiplier(aggressiveness),
                      RDiv(RAdd(RHundred, market_share), RHundred)))
    IN  IF RGt(product, Rat(95, 100)) THEN Rat(95, 100) ELSE product

\* C26: every response probability is min(min(|price_change_percent| / 20,
\* 0.8) x aggressiveness multiplier x (1 + market share / 100), 0.95), with
\* multipliers 0.7, 1.0, 1.3, 1.6 and 1.0 for any other aggressiveness; for
\* high aggressiveness, market share 25 and a price change of 20% it is 0.95.
C26_ResponseProbabilityFormula ==
    call.op = "_calculate_response_probability"
    => \A i \in 1..Len(call.probabilities) :
          /\ call.probabilities[i]
               = StatedResponseProbability(call.args.price_change_percents[i],
                     call.args.aggressiveness, call.args.market_share)
          /\ ( /\ call.args.price_change_percents[i] = RInt(20)
               /\ call.args.aggressiveness = "high"
               /\ call.args.market_share = RInt(25) )
             => call.probabilities[i] = Rat(95, 100)

\* the stated example, next to a small price change with a probability
\* below 0.3
C26_Witness ==
    /\ call.op = "_calculate_response_probability"
    /\ Len(call.probabilities) = 2
    /\ call.args.aggressiveness = "high"
    /\ call.args.market_share = RInt(25)
    /\ call.args.price_change_percents = <<RInt(20), RInt(3)>>
    /\ call.probabilities[1] = Rat(95, 100)
    /\ RLt(call.probabilities[2], Rat(3, 10))


\* the three draws of run i of the last call, as the values the run uses:
\* normal(-1.2, 0.3), normal(1.0, 0.1) and uniform(0, 0.2) by default
StatedRunDraws(i) ==
    LET Drawn(draw) ==
            [elasticity |-> RAdd(Rat(-12, 10),
                                 RMul(draw.z_elasticity, Rat(3, 10))),
             seasonal |-> RAdd(ROne, RMul(draw.z_seasonal, Rat(1, 10))),
             competitive |-> RMul(draw.u_competitive, Rat(2, 10))]
    IN  Drawn(DrawAt(call.generator.seed, call.generator.position + i - 1))

\* the stated value of a run with the given draws
StatedRunValue(pricing_changes, drawn) ==
    RSum([k \in 1..Len(pricing_changes) |->
        RMul(RMul(pricing_changes[k].new_price,
                  pricing_changes[k].current_monthly_volume),
             RSub(RAdd(ROne,
                       RMul(RMul(RDiv(pricing_changes[k].price_change_percent,
                                      RHundred),
                                 drawn.elasticity),
                            drawn.seasonal)),
                  drawn.competitive))])

StatedRunValues ==
    [i \in 1..call.args.num_simulations |->
        StatedRunValue(call.args.pricing_changes, StatedRunDraws(i))]

\* statistics are the mean, smallest and largest of values, to two decimals
SummarisesRuns(statistics, values) ==
    /\ statistics.mean = Round(RDiv(RSum(values), RInt(Len(values))), 2)
    /\ \E i \in 1..Len(values) :
         /\ statistics.min = Round(values[i], 2)
         /\ \A j \in 1..Len(values) : RLe(values[i], values[j])
    /\ \E i \in 1..Len(values) :
         /\ statistics.max = Round(values[i], 2)
         /\ \A j \in 1..Len(values) : RGe(values[i], values[j])

\* C27: run_monte_carlo_simulation with run count N returns after N runs;
\* run i uses one elasticity, one seasonal factor and one competitive
\* intensity for all its changes, and its value is the sum over the changes
\* of new price x current volume x (1 + price_change_percent/100 x
\* elasticity x seasonal - competitive intensity); the statistics are those
\* of exactly these N values (mean, smallest and largest, to two decimals)
\* and simulation_runs is N.
C27_ExactlyNRuns ==
    call.op = "run_monte_carlo_simulation"
    => /\ call.result.outcome = "returned"
       /\ call.result.value.simulation_runs = call.args.num_simulations
       /\ Len(StatedRunValues) = call.args.num_simulations
       /\ SummarisesRuns(call.result.value.revenue_statistics,
                         StatedRunValues)

\* three runs over two changes whose values differ
C27_Witness ==
    /\ MonteCarloReturned
    /\ call.args.num_simulations = 3
    /\ Len(call.args.pricing_changes) = 2
    /\ call.result.value.simulation_runs = 3
    /\ Cardinality({StatedRunValues[i] : i \in 1..3}) = 3
    /\ RLt(call.result.value.revenue_statistics.min,
           call.result.value.revenue_statistics.max)

\* the stated elasticity of a sensitivity tier
StatedSegmentElasticity ==
    [low |-> Rat(-8, 10), medium |-> Rat(-12, 10), high |-> Rat(-18, 10),
     very_high |-> Rat(-25, 10)]

StatedTierElasticity(tier) ==
    IF tier \in DOMAIN StatedSegmentElasticity
    THEN StatedSegmentElasticity[tier] ELSE Rat(-12, 10)

\* the stated demand change of a segment for a change, as a fraction
StatedSegmentDemandChange(change, tier) ==
    RMul(RDiv(change.price_change_percent, RHundred),
         StatedTierElasticity(tier))

\* the entry of a segment for a change is the stated one, in percent and to
\* two decimals
SegmentEntryAsStated(entry, change, tier, size) ==
    /\ entry.segment_demand_change_percent
         = Round(RMul(StatedSegmentDemandChange(change, tier), RHundred), 2)
    /\ entry.segment_contribution_to_total
         = Round(RMul(RMul(StatedSegmentDemandChange(change, tier),
                           RDiv(size, RHundred)), RHundred), 2)

\* C28: for every segment and every pricing change, the segment simulation
\* uses the elasticity of the segment's tier (low -0.8, medium -1.2, high
\* -1.8, very_high -2.5, any other tier -1.2), reports the demand change
\* price_change_percent/100 x elasticity and the contribution demand change
\* x segment size/100 (both in percent, to two decimals), and reports the
\* segment size as given, whatever the sizes sum to.
C28_SegmentComputation ==
    SegmentReturned
    => /\ Len(call.result.value.segment_impacts)
            = Len(call.args.customer_segments)
       /\ \A i \in 1..Len(call.args.customer_segments) :
            LET segment == call.args.customer_segments[i]
                impact == call.result.value.segment_impacts[i]
                tier == Get(segment, "price_sensitivity", "medium")
                size == Get(segment, "size_percent", RInt(25))
            IN  /\ impact.elasticity = StatedTierElasticity(tier)
                /\ impact.segment_size_percent = size
                /\ Len(impact.product_impacts)
                     = Len(call.args.pricing_changes)
                /\ \A j \in 1..Len(call.args.pricing_changes) :
                     SegmentEntryAsStated(impact.product_impacts[j],
                         call.args.pricing_changes[j], tier, size)

\* a segment of a tier outside the table next to a high-sensitivity one,
\* their sizes summing to 45, and a change whose contribution is rounded
C28_Witness ==
    /\ SegmentReturned
    /\ Len(call.args.customer_segments) = 2
    /\ Get(call.args.customer_segments[1], "price_sensitivity", "medium")
         = "extreme"
    /\ Get(call.args.customer_segments[2], "price_sensitivity", "medium")
         = "high"
    /\ call.result.value.segment_impacts[1].elasticity = Rat(-12, 10)
    /\ call.result.value.segment_impacts[1].segment_size_percent = RInt(15)
    /\ call.result.value.segment_impacts[2].segment_size_percent = RInt(30)
    /\ Len(call.args.pricing_changes) >= 1
    /\ call.args.pricing_changes[1].price_change_percent = Rat(-625, 100)
    /\ call.result.value.segment_impacts[2].product_impacts[1]
           .segment_demand_change_percent = Rat(1125, 100)
    /\ call.result.value.segment_impacts[2].product_impacts[1]
           .segment_contribution_to_total = Rat(338, 100)

----------------------------------------------------------------------------
(* The estimated response on its own: _estimate_competitor_response         *)
(* (lines 318-348) applied to each price change of a list, for one          *)
(* competitor's aggressiveness and market share.                            *)

EstimateChangePercents ==
    {RInt(0), RInt(10), Rat(-667, 100), RInt(11), RInt(-20), Rat(1, 100)}

InitEstimate ==
    /\ simulation_history = <<>>
    /\ clock = 0
    /\ threads = <<>>
    /\ np_random = FreshGenerator
    /\ \E price_change_percents \in SeqsUpTo(EstimateChangePercents, MaxChanges),
          aggressiveness \in AggressivenessLevels,
          market_share \in MarketShares :
          call = [op |-> "_estimate_competitor_response",
                  args |-> [price_change_percents |-> price_change_percents,
                            aggressiveness |-> aggressiveness,
                            market_share |-> market_share],
                  responses |-> <<>>]

\* the estimate for the next price change
EstimateCompetitorResponse ==
    /\ call.op = "_estimate_competitor_response"
    /\ Len(call.responses) < Len(call.args.price_change_percents)
    /\ call' = [call EXCEPT !.responses =
                   Append(@, _estimate_competitor_response(
                       [price_change_percent |->
                            call.args.price_change_percents[Len(@) + 1]],
                       call.args.aggressiveness, call.args.market_share))]
    /\ UNCHANGED <<simulation_history, clock, threads, np_random>>

NextEstimate == EstimateCompetitorResponse

SpecEstimate == InitEstimate /\ [][NextEstimate]_vars

\* the stated competitor response percent to the i-th price change
StatedCompetitorResponse(i) ==
    RMul(call.args.price_change_percents[i],
         IF KnownAggressiveness(call.args.aggressiveness)
         THEN StatedResponseRatio(call.args.aggressiveness)
         ELSE Rat(6, 10))

\* C29: the response type is follow_increase when our change is an increase
\* and the competitor response percent is positive, maintain_price when our
\* change is an increase and the response is not positive, follow_decrease
\* when our change is a decrease and the response is negative, and price_war
\* when our change is a decrease and the response is not negative.
C29_ResponseTypes ==
    call.op = "_estimate_competitor_response"
    => \A i \in 1..Len(call.responses) :
         /\ (/\ RGt(call.args.price_change_percents[i], RZero)
             /\ RGt(StatedCompetitorResponse(i), RZero))
            => call.responses[i].type = "follow_increase"
         /\ (/\ RGt(call.args.price_change_percents[i], RZero)
             /\ ~RGt(StatedCompetitorResponse(i), RZero))
            => call.responses[i].type = "maintain_price"
         /\ (/\ RLt(call.args.price_change_percents[i], RZero)
             /\ RLt(StatedCompetitorResponse(i), RZero))
            => call.responses[i].type = "follow_decrease"
         /\ (/\ RLt(call.args.price_change_percents[i], RZero)
             /\ ~RLt(StatedCompetitorResponse(i), RZero))
            => call.responses[i].type = "price_war"

\* an increase followed and a cut followed, by the same competitor
C29_Witness ==
    /\ call.op = "_estimate_competitor_response"
    /\ Len(call.responses) = 2
    /\ RGt(call.args.price_change_percents[1], RZero)
    /\ RGt(StatedCompetitorResponse(1), RZero)
    /\ call.responses[1].type = "follow_increase"
    /\ RLt(call.args.price_change_percents[2], RZero)
    /\ RLt(StatedCompetitorResponse(2), RZero)
    /\ call.responses[2].type = "follow_decrease"

\* the stated impact on our demand of the response to the i-th price
\* change: |response percent| x market share/100 x 0.5, negative when the
\* response and our change have opposite signs
StatedImpactOnUs(i) ==
    LET Signed(magnitude) ==
            IF RLt(RMul(StatedCompetitorResponse(i),
                        call.args.price_change_percents[i]), RZero)
            THEN RNeg(magnitude) ELSE magnitude
    IN  Signed(RMul(RMul(RAbs(StatedCompetitorResponse(i)),
                         RDiv(call.args.market_share, RHundred)),
                    Rat(5, 10)))

\* C30 as stated: the impact on our demand has magnitude |competitor
\* response percent| x (market share / 100) x 0.5, negative exactly when the
\* product of the two percentages is below 0.
C30_ImpactExact ==
    call.op = "_estimate_competitor_response"
    => \A i \in 1..Len(call.responses) :
          call.responses[i].impact_on_us = StatedImpactOnUs(i)

\* C30: the impact on our demand is |competitor response percent| x (market
\* share / 100) x 0.5, negative exactly when the product of the two
\* percentages is below 0, rounded to three decimals.
C30_ImpactRounded ==
    call.op = "_estimate_competitor_response"
    => \A i \in 1..Len(call.responses) :
          call.responses[i].impact_on_us = Round(StatedImpactOnUs(i), 3)

\* the example's price cut of 6.67% answered by a competitor of high
\* aggressiveness with a quarter of the market: 0.750375 reported as 0.75
C30_Witness ==
    /\ call.op = "_estimate_competitor_response"
    /\ call.args.aggressiveness = "high"
    /\ call.args.market_share = RInt(25)
    /\ Len(call.responses) >= 1
    /\ call.args.price_change_percents[1] = Rat(-667, 100)
    /\ StatedImpactOnUs(1) = Rat(750375, 1000000)
    /\ call.responses[1].impact_on_us = Rat(75, 100)

====
